---- MODULE Spec2Model ----
(***************************************************************************)
(* A model of kubectl-assistant (src/kube_assistant): the kubectl_exec     *)
(* tool and its display wrapper, the conversation memory that interactive  *)
(* sessions load from and save to ~/.kube_assistant/memory.pkl, the        *)
(* settings store of config.py, the command line of cli.py, and two CLI    *)
(* processes that use the two files at the same time.                      *)
(*                                                                         *)
(* Text is a sequence of fragments (strings).  A fragment is either one    *)
(* character that the code looks at (" ", "\t", "'", "\n", "{", "}") or    *)
(* an opaque run of other characters ("kubectl", "get", "ln", ...).        *)
(***************************************************************************)
EXTENDS Naturals, Sequences, FiniteSets, TLC

VARIABLES
    \* ---- one call of the kubectl_exec tool (agent.py 39-161) ----
    epc,          \* position of the call: "call", "func", "spawn", "after", "returned"
    showToolCalls,\* the global SHOW_TOOL_CALLS
    command,      \* the command string handed to the tool (NoText once consumed)
    argv,         \* cmd_args, the vector given to subprocess.run
    spawned,      \* number of child processes started by this call
    started,      \* the binaries this call has made the system execute
    child,        \* what the child process did: [status, out]
    funcResult,   \* outcome of the undecorated kubectl_exec: [kind, val]
    toolResult,   \* outcome of the decorated tool, as the reasoning engine sees it
    console,      \* what the wrapper has printed, in order
    \* ---- conversation memory and interactive session (agent.py 296-516) ----
    pc,           \* position of the CLI process
    mode,         \* "none", "query", "interactive", "api"
    memory,       \* self.memory: NoMemory or the list of messages
    executorMemory,\* the memory object the AgentExecutor was built with
    memfile,      \* contents of memory_path: NoFile or a blob
    inputs,       \* lines input() has returned in the current session
    fileAtStart,  \* memfile when the current process started
    lastExchange, \* the exchange answered last by the current process
    saveFault,    \* TRUE once a write of memory_path has failed
    savedTurns,   \* the messages the file holds from a successful save, if it does
    lastOp,       \* last memory operation: "none", "save", "load", "turn", "new"
    loadsInRow,   \* number of load_memory calls since the last other operation
    exitCode,     \* exit code of the process: <<>> while it runs, else <<code>>
    sessions      \* number of processes started so far

VARIABLES
    \* ---- the settings store (config.py) ----
    cfgfile,      \* contents of CONFIG_FILE: NoCfgFile or a JSON text
    defaultConfig,\* the module-level dict DEFAULT_CONFIG as the process holds it
    cfgOp,        \* the last settings operation: [name, section, args]
    cfgBefore,    \* what load_config returned at the start of that operation
    cfgResult,    \* what the operation returned
    cfgRaised,    \* the error it raised, or "none"
    cfgOps,       \* settings operations performed by the process
    \* ---- one CLI process after the other (cli.py) ----
    env,          \* os.environ, the variables the CLI reads
    cliArgv,      \* sys.argv[1:] of the last process
    cliArgs,      \* what argparse made of it
    cliOut,       \* what the process did: handler, exit code, agent, file
    cliFileBefore,\* CONFIG_FILE when that process started
    cliRuns       \* CLI processes run so far

VARIABLES
    \* ---- CLI processes of one user that run at the same time ----
    rpc,          \* position of each process: "idle", "loaded", "opened", "prompt"
    rcfg,         \* the settings each process holds between load_config and the write
    rmsgs,        \* the messages of each session's memory
    rlog,         \* the updates written to the files, in the order of the writes
    overlapped,   \* TRUE once a process has started while another was running
    rstarts       \* processes started so far

VARIABLES
    \* ---- the input stream of an interactive session ----
    stdin         \* the lines input() will return, in order; after them every
                  \* read raises EOFError

execVars == <<epc, showToolCalls, command, argv, spawned, started, child,
              funcResult, toolResult, console>>
memVars == <<pc, mode, memory, executorMemory, memfile, inputs, fileAtStart,
             lastExchange, saveFault, savedTurns, lastOp, loadsInRow, exitCode,
             sessions>>
cfgVars == <<cfgfile, defaultConfig, cfgOp, cfgBefore, cfgResult, cfgRaised,
             cfgOps>>
cliVars == <<env, cliArgv, cliArgs, cliOut, cliFileBefore, cliRuns>>
raceVars == <<rpc, rcfg, rmsgs, rlog, overlapped, rstarts>>
liveVars == <<stdin>>
extVars == <<cfgVars, cliVars, raceVars, liveVars>>
vars == <<execVars, memVars, extVars>>

(***************************************************************************)
(* Bounds of the model.                                                    *)
(***************************************************************************)
MaxCmdLen == 3       \* fragments in a command string
MaxRep == 21         \* repetitions of a line in a child's output
MaxTurns == 2        \* exchanges a memory may hold
MaxInputs == 3       \* lines read by one interactive session
MaxSessions == 2     \* CLI processes started in a run
MaxLoads == 2        \* load_memory calls in a row
MaxKeyLen == 5       \* characters in a credential
MaxOps == 2          \* settings operations performed by one process
MaxArgs == 3         \* arguments on a command line
MaxRuns == 2         \* CLI processes run one after the other
MaxStarts == 3       \* processes started, and updates written, where two
                     \* processes may run at the same time

(***************************************************************************)
(* Text helpers.                                                           *)
(***************************************************************************)
NoText == <<"<none>">>

IsWs(a) == a \in {" ", "\t", "\n"}

RECURSIVE LStrip(_)
LStrip(s) == IF s = <<>> THEN s
             ELSE IF IsWs(Head(s)) THEN LStrip(Tail(s)) ELSE s

RECURSIVE RStrip(_)
RStrip(s) == IF s = <<>> THEN s
             ELSE IF IsWs(s[Len(s)]) THEN RStrip(SubSeq(s, 1, Len(s) - 1)) ELSE s

\* str.strip()
Strip(s) == RStrip(LStrip(s))

RECURSIVE SplitFrom(_, _, _)
SplitFrom(s, cur, acc) ==
    IF s = <<>> THEN Append(acc, cur)
    ELSE IF Head(s) = "\n" THEN SplitFrom(Tail(s), <<>>, Append(acc, cur))
    ELSE SplitFrom(Tail(s), Append(cur, Head(s)), acc)

\* output.split("\n"): a sequence of lines, each a text
SplitLines(s) == SplitFrom(s, <<>>, <<>>)

RECURSIVE JoinLines(_)
JoinLines(ls) ==
    IF ls = <<>> THEN <<>>
    ELSE IF Len(ls) = 1 THEN ls[1]
    ELSE ls[1] \o <<"\n">> \o JoinLines(Tail(ls))

RECURSIVE Rep(_, _)
Rep(u, n) == IF n = 0 THEN <<>> ELSE u \o Rep(u, n - 1)

\* All sequences over S of length at most n
SeqsUpTo(S, n) == UNION {[1..k -> S] : k \in 0..n}

(***************************************************************************)
(* kubectl_exec, undecorated (agent.py 137-161).                           *)
(***************************************************************************)
\* ";" stands for the operators of a shell (; | && $( and the like): to
\* strip, startswith and shlex.split they are ordinary characters of a word
CmdAtoms == {"kubectl", " ", "\t", "get", "'", ";"}
Commands == SeqsUpTo(CmdAtoms, MaxCmdLen)

\* command.startswith("kubectl ")
StartsWithKubectlSpace(s) == Len(s) >= 2 /\ s[1] = "kubectl" /\ s[2] = " "

\* lines 148-152: strip, then prefix unless the text starts with "kubectl "
Normalize(c) ==
    LET s == Strip(c)
    IN  IF ~StartsWithKubectlSpace(s) THEN <<"kubectl", " ">> \o s ELSE s

\* shlex.split in POSIX mode over the fragments of the model: whitespace
\* separates words, a single quote opens a literal section that the next
\* single quote closes, an unclosed quote raises ValueError.
RECURSIVE ShlexScan(_, _, _, _, _)
ShlexScan(s, cur, inTok, inQuote, acc) ==
    IF s = <<>> THEN
        IF inQuote THEN [ok |-> FALSE, args |-> <<>>]
        ELSE [ok |-> TRUE, args |-> IF inTok THEN Append(acc, cur) ELSE acc]
    ELSE LET a == Head(s)
             r == Tail(s)
         IN  IF inQuote THEN
                 IF a = "'" THEN ShlexScan(r, cur, TRUE, FALSE, acc)
                 ELSE ShlexScan(r, Append(cur, a), TRUE, TRUE, acc)
             ELSE IF a = "'" THEN ShlexScan(r, cur, TRUE, TRUE, acc)
             ELSE IF IsWs(a) THEN
                 IF inTok THEN ShlexScan(r, <<>>, FALSE, FALSE, Append(acc, cur))
                 ELSE ShlexScan(r, <<>>, FALSE, FALSE, acc)
             ELSE ShlexScan(r, Append(cur, a), TRUE, FALSE, acc)

ShlexSplit(s) == ShlexScan(s, <<>>, FALSE, FALSE, <<>>)

Return(v) == [kind |-> "return", val |-> v]
Raise(msg) == [kind |-> "raise", val |-> msg]
NoResult == [kind |-> "none", val |-> <<>>]
NoChild == [status |-> "none", out |-> <<>>]

\* The outputs a child process may write: pre, a line repeated n times, suf.
Pres == {<<>>, <<"{">>}
Units == {<<"ln", "\n">>, <<"\n">>}
Sufs == {<<>>, <<"ln">>, <<"}">>, <<"\"k\":1", "}">>}
Texts == {p \o Rep(u, n) \o s : p \in Pres, u \in Units, n \in 0..MaxRep, s \in Sufs}

\* What subprocess.run can do with the vector: the binary cannot be started
\* (OSError), or the child exits with status 0 or not, having written text.
ChildOutcomes ==
    {[status |-> "oserror", out |-> <<>>]}
    \cup {[status |-> st, out |-> t] : st \in {"zero", "nonzero"}, t \in Texts}

\* A mutant of RunResult: check=True forgotten, a failed child returns stdout.
RunResultUnchecked(o) ==
    IF o.status = "oserror" THEN Raise(<<"No such file or directory: 'kubectl'">>)
    ELSE IF o.status = "zero" THEN Return(o.out)
    ELSE Return(<<>>)

\* lines 157-161: subprocess.run(check=True, capture_output=True, text=True).
\* For a child that exits non-zero, o.out is its stderr; otherwise its stdout.
RunResult(o) ==
    IF o.status = "oserror" THEN Raise(<<"No such file or directory: 'kubectl'">>)
    ELSE IF o.status = "zero" THEN Return(o.out)
    ELSE Return(<<"Error: ">> \o o.out)

(***************************************************************************)
(* The display wrapper (agent.py 39-133).                                  *)
(***************************************************************************)
PREVIEW_LINES == 20

Item(k, v, n) == [k |-> k, v |-> v, n |-> n]
Rule == Item("rule", <<>>, 0)
Label(t) == Item("label", <<t>>, 0)

\* str(e) of the error rich raises when it cannot render a text as markup
MarkupMsg == <<"closing tag '[/x]' doesn't match any open tag">>

\* lines 59-86: blank line, rule, parameter table, and the command itself.
\* The table cells and the command are shown; their text is not recorded.
HeaderStart == <<Item("blank", <<>>, 0), Item("rule", <<"EXECUTING: kubectl_exec">>, 0)>>
HeaderRest == <<Item("table", <<"Parameters">>, 0), Label("Command:"),
                Item("syntax", <<"bash">>, 0)>>

\* output.startswith("{") and output.endswith("}")
LooksJson(t) == t # <<>> /\ Head(t) = "{" /\ t[Len(t)] = "}"

\* The members between the braces, whitespace dropped
JsonBody(t) == SelectSeq(SubSeq(t, 2, Len(t) - 1), LAMBDA a : ~IsWs(a))

\* json.loads succeeds: over the fragments of the model the only JSON
\* objects are {} and {"k":1}, with any whitespace between the tokens.
JsonLoadsOk(t) == Len(t) >= 2 /\ JsonBody(t) \in {<<>>, <<"\"k\":1">>}

\* json.dumps(parsed, indent=2)
JsonDumps(t) == IF JsonBody(t) = <<>> THEN <<"{", "}">>
                ELSE <<"{", "\n", "  ", "\"k\": 1", "\n", "}">>

\* _print_regular_output (lines 122-133).  printFails: console.print raises
\* on the text it is given.  Yields the items printed and whether it raised.
PrintRegularOutput(output, printFails) ==
    LET output_lines == SplitLines(output)
    IN  IF Len(output_lines) > PREVIEW_LINES THEN
            LET preview == JoinLines(SubSeq(output_lines, 1, PREVIEW_LINES))
            IN  IF printFails
                THEN [items |-> <<Label("Output (truncated):")>>, raised |-> TRUE]
                ELSE [items |-> <<Label("Output (truncated):"),
                                  Item("text", preview, 0),
                                  Item("more", <<>>, Len(output_lines) - PREVIEW_LINES)>>,
                      raised |-> FALSE]
        ELSE IF printFails
             THEN [items |-> <<Label("Output:")>>, raised |-> TRUE]
             ELSE [items |-> <<Label("Output:"), Item("text", output, 0)>>,
                   raised |-> FALSE]

\* lines 93-106: JSON is pretty-printed through Syntax, the rest goes to
\* _print_regular_output (also when json.loads raises JSONDecodeError).
ShowOutput(output, printFails) ==
    IF LooksJson(output) /\ JsonLoadsOk(output)
    THEN [items |-> <<Label("Output:"), Item("json", JsonDumps(output), 0)>>,
          raised |-> FALSE]
    ELSE PrintRegularOutput(output, printFails)

\* lines 110-115: the except branch.  console.print(error_msg) is a print of
\* text too: when it raises, the error leaves the wrapper.
ExceptBranch(msg, con, printFails) ==
    IF printFails
    THEN [result |-> Raise(MarkupMsg), console |-> con \o <<Label("Error:")>>]
    ELSE [result |-> Return(<<"Error: ">> \o msg),
          console |-> con \o <<Label("Error:"), Item("text", msg, 0), Rule>>]

\* lines 49-52 and 88-115: what the wrapper does with the outcome of func.
\* printFails: the print of the output raises; errPrintFails: the print of
\* that error's text raises too.  The messages of the errors func raises
\* are fixed texts, and printing them does not fail.
WrapperFinish(show, fres, con, printFails, errPrintFails) ==
    IF ~show THEN [result |-> fres, console |-> con]
    ELSE IF fres.kind = "raise" THEN ExceptBranch(fres.val, con, FALSE)
    ELSE LET d == ShowOutput(fres.val, printFails)
         IN  IF d.raised THEN ExceptBranch(MarkupMsg, con \o d.items, errPrintFails)
             ELSE [result |-> fres, console |-> con \o d.items \o <<Rule>>]

(***************************************************************************)
(* The tool call as a state machine.                                       *)
(***************************************************************************)
\* wrapper, lines 49-86.  tableFails: console.print(table) raises on a cell.
\* That print is outside the try block, so the error leaves the wrapper.
WrapperEnter(tableFails) ==
    /\ epc = "call"
    /\ IF ~showToolCalls
       THEN /\ epc' = "func"
            /\ UNCHANGED <<console, toolResult>>
       ELSE IF tableFails
       THEN /\ console' = HeaderStart
            /\ toolResult' = Raise(MarkupMsg)
            /\ epc' = "returned"
       ELSE /\ console' = HeaderStart \o HeaderRest
            /\ epc' = "func"
            /\ UNCHANGED toolResult
    /\ UNCHANGED <<showToolCalls, command, argv, spawned, started, child,
                   funcResult>>
    /\ UNCHANGED <<memVars, extVars>>

\* kubectl_exec, lines 148-155: normalise the text and split it into words.
FuncPrepare ==
    /\ epc = "func"
    /\ LET sp == ShlexSplit(Normalize(command))
       IN  IF sp.ok
           THEN /\ argv' = sp.args
                /\ epc' = "spawn"
                /\ UNCHANGED <<funcResult, command>>
           ELSE /\ funcResult' = Raise(<<"No closing quotation">>)
                /\ epc' = "after"
                /\ command' = NoText
                /\ UNCHANGED argv
    /\ UNCHANGED <<showToolCalls, spawned, started, child, toolResult, console>>
    /\ UNCHANGED <<memVars, extVars>>

\* A mutant of Popen: shell=True, the binary that is started is the shell,
\* which starts what it reads in its argument.
PopenShell(args) == <<<<"/bin/sh">>, args[1]>>

\* subprocess.run(cmd_args) with a list and no shell=True (line 158): one
\* program is executed, the list's first word; the other words are its
\* arguments as they are, nothing interprets them.
Popen(args) == <<args[1]>>

\* kubectl_exec, lines 157-161: run the vector once and turn the outcome
\* into the function's result.  The locals end with the function.
FuncRun(o) ==
    /\ epc = "spawn"
    /\ spawned' = IF o.status = "oserror" THEN spawned ELSE spawned + 1
    /\ started' = IF o.status = "oserror" THEN started ELSE started \o Popen(argv)
    /\ child' = o
    /\ funcResult' = RunResult(o)
    /\ command' = NoText
    /\ argv' = <<>>
    /\ epc' = "after"
    /\ UNCHANGED <<showToolCalls, toolResult, console>>
    /\ UNCHANGED <<memVars, extVars>>

\* wrapper, lines 52 and 89-115: display the outcome and hand it on.
WrapperReturn(printFails, errPrintFails) ==
    /\ epc = "after"
    /\ LET w == WrapperFinish(showToolCalls, funcResult, console,
                              printFails, errPrintFails)
       IN  /\ toolResult' = w.result
           /\ console' = w.console
    /\ epc' = "returned"
    /\ UNCHANGED <<showToolCalls, command, argv, spawned, started, child,
                   funcResult>>
    /\ UNCHANGED <<memVars, extVars>>

(***************************************************************************)
(* Conversation memory: save_memory and load_memory (agent.py 333-402).    *)
(***************************************************************************)
HumanMessage(t) == [cls |-> "HumanMessage", content |-> t]
AIMessage(t) == [cls |-> "AIMessage", content |-> t]

\* isinstance(msg, BaseMessage)
IsBaseMessage(m) == m.cls \in {"HumanMessage", "AIMessage"}

\* Classes pickle can find again when it loads an object
Picklable == {"HumanMessage", "AIMessage", "str"}

NoMemory == [exists |-> FALSE, msgs |-> <<>>]
Mem(ms) == [exists |-> TRUE, msgs |-> ms]

\* create_memory (lines 333-344): a new, empty ConversationBufferMemory
CreateMemory == Mem(<<>>)

NoFile == [exists |-> FALSE, perm |-> "rw", blob |-> <<>>]
File(b) == [exists |-> TRUE, perm |-> "rw", blob |-> b]
Locked(b) == [exists |-> TRUE, perm |-> "none", blob |-> b]

RECURSIVE PickleItems(_)
PickleItems(ms) ==
    IF ms = <<>> THEN <<>>
    ELSE <<Head(ms).cls, Head(ms).content>> \o PickleItems(Tail(ms))

\* pickle.dump of a list of messages: a list mark, every message as its
\* class and its content, and the stop mark
Pickle(ms) == <<"LIST">> \o PickleItems(ms) \o <<"STOP">>

RECURSIVE UnpickleItems(_)
UnpickleItems(b) ==
    IF b = <<>> THEN <<>>
    ELSE <<[cls |-> b[1], content |-> b[2]]>> \o UnpickleItems(SubSeq(b, 3, Len(b)))

\* pickle.load: ok is FALSE when it raises (empty or cut file, unknown
\* class, no stop mark); a blob may also hold an object that is not a list.
Unpickle(b) ==
    IF b = <<"DICT", "STOP">> THEN [ok |-> TRUE, isList |-> FALSE, items |-> <<>>]
    ELSE IF /\ Len(b) >= 2
            /\ b[1] = "LIST"
            /\ b[Len(b)] = "STOP"
            /\ Len(b) % 2 = 0
            /\ \A i \in 1..((Len(b) - 2) \div 2) : b[2 * i] \in Picklable
    THEN [ok |-> TRUE, isList |-> TRUE,
          items |-> UnpickleItems(SubSeq(b, 2, Len(b) - 1))]
    ELSE [ok |-> FALSE, isList |-> FALSE, items |-> <<>>]

\* Outcomes of a write of memory_path: it succeeds, mkdir or open raises
\* (the file is left as it was), or the dump raises after open truncated it.
WriteOutcomes == {"ok", "openfail", "dumpfail"}

\* A mutant of SaveMemory: the file is opened in append mode.
SaveMemoryAppend(mem, file, w) ==
    IF ~mem.exists THEN [file |-> file, fault |-> FALSE, wrote |-> FALSE]
    ELSE IF w = "openfail" \/ (file.exists /\ file.perm = "none")
    THEN [file |-> file, fault |-> TRUE, wrote |-> FALSE]
    ELSE IF w = "dumpfail"
    THEN [file |-> File(SubSeq(Pickle(mem.msgs), 1, Len(Pickle(mem.msgs)) - 1)),
          fault |-> TRUE, wrote |-> FALSE]
    ELSE [file |-> File(file.blob \o Pickle(mem.msgs)), fault |-> FALSE, wrote |-> TRUE]

\* A mutant of SaveMemory: only the last exchange is written.
SaveMemoryLastOnly(mem, file, w) ==
    IF ~mem.exists THEN [file |-> file, fault |-> FALSE, wrote |-> FALSE]
    ELSE IF w = "openfail" \/ (file.exists /\ file.perm = "none")
    THEN [file |-> file, fault |-> TRUE, wrote |-> FALSE]
    ELSE IF w = "dumpfail"
    THEN [file |-> File(SubSeq(Pickle(mem.msgs), 1, Len(Pickle(mem.msgs)) - 1)),
          fault |-> TRUE, wrote |-> FALSE]
    ELSE [file |-> File(Pickle(IF Len(mem.msgs) > 2
                               THEN SubSeq(mem.msgs, Len(mem.msgs) - 1, Len(mem.msgs))
                               ELSE mem.msgs)),
          fault |-> FALSE, wrote |-> TRUE]

\* save_memory (lines 346-364).  Nothing is written without a memory; an
\* error of the write is caught and reported, never raised.
SaveMemory(mem, file, w) ==
    IF ~mem.exists THEN [file |-> file, fault |-> FALSE, wrote |-> FALSE]
    ELSE IF w = "openfail" \/ (file.exists /\ file.perm = "none")
    THEN [file |-> file, fault |-> TRUE, wrote |-> FALSE]
    ELSE IF w = "dumpfail"
    THEN [file |-> File(SubSeq(Pickle(mem.msgs), 1, Len(Pickle(mem.msgs)) - 1)),
          fault |-> TRUE, wrote |-> FALSE]
    ELSE [file |-> File(Pickle(mem.msgs)), fault |-> FALSE, wrote |-> TRUE]

\* A mutant of LoadMemory: the messages are not cleared before the extend.
LoadMemoryNoClear(mem, file) ==
    IF file.exists THEN
        IF file.perm = "none" THEN [memory |-> CreateMemory, raised |-> FALSE]
        ELSE LET u == Unpickle(file.blob)
                 m0 == IF ~mem.exists THEN CreateMemory ELSE mem
             IN  IF ~u.ok THEN [memory |-> CreateMemory, raised |-> FALSE]
                 ELSE IF u.isList /\ \A i \in 1..Len(u.items) : IsBaseMessage(u.items[i])
                 THEN [memory |-> Mem(m0.msgs \o u.items), raised |-> FALSE]
                 ELSE [memory |-> CreateMemory, raised |-> FALSE]
    ELSE [memory |-> CreateMemory, raised |-> FALSE]

\* A mutant of LoadMemory: a value of the wrong shape is reported and the
\* memory object is kept as it is; an error of pickle.load is not caught.
LoadMemoryKeeps(mem, file) ==
    IF file.exists THEN
        IF file.perm = "none" THEN [memory |-> CreateMemory, raised |-> FALSE]
        ELSE LET u == Unpickle(file.blob)
                 m0 == IF ~mem.exists THEN CreateMemory ELSE mem
             IN  IF ~u.ok THEN [memory |-> mem, raised |-> TRUE]
                 ELSE IF u.isList /\ \A i \in 1..Len(u.items) : IsBaseMessage(u.items[i])
                 THEN [memory |-> Mem(u.items), raised |-> FALSE]
                 ELSE [memory |-> m0, raised |-> FALSE]
    ELSE [memory |-> CreateMemory, raised |-> FALSE]

\* load_memory (lines 366-402).  A file that cannot be opened or unpickled
\* takes the except branch; a value that is not a list of messages is
\* replaced by a new memory; a list of messages replaces the messages held.
LoadMemory(mem, file) ==
    IF file.exists THEN
        IF file.perm = "none" THEN [memory |-> CreateMemory, raised |-> FALSE]
        ELSE LET u == Unpickle(file.blob)
                 m0 == IF ~mem.exists THEN CreateMemory ELSE mem
                 cleared == SubSeq(m0.msgs, 1, 0)
             IN  IF ~u.ok THEN [memory |-> CreateMemory, raised |-> FALSE]
                 ELSE IF u.isList /\ \A i \in 1..Len(u.items) : IsBaseMessage(u.items[i])
                 THEN [memory |-> Mem(cleared \o u.items), raised |-> FALSE]
                 ELSE [memory |-> CreateMemory, raised |-> FALSE]
    ELSE [memory |-> CreateMemory, raised |-> FALSE]

\* The transcript a new agent gets from the file
DiskTranscript(file) == LoadMemory(NoMemory, file).memory.msgs

\* The file is absent or holds what load_memory accepts
AcceptedFile(file) ==
    \/ ~file.exists
    \/ /\ file.perm = "rw"
       /\ Unpickle(file.blob).ok
       /\ Unpickle(file.blob).isList
       /\ \A i \in 1..Len(Unpickle(file.blob).items) :
              IsBaseMessage(Unpickle(file.blob).items[i])

Queries == {"list namespaces", "get pods"}
Answers == {"a1", "a2"}

Exchange(q, a) == <<HumanMessage(q), AIMessage(a)>>
NoExchange == <<>>

\* The files a CLI process may find at memory_path when the first one starts
SessionFiles ==
    {NoFile,
     File(Pickle(<<>>)),
     File(Pickle(Exchange("get pods", "a1"))),
     Locked(Pickle(Exchange("get pods", "a1"))),
     File(<<"LIST", "HumanMessage">>),
     File(<<"LIST", "HumanMessage", "get pods", "str", "x", "STOP">>)}

\* The files an agent may find at memory_path
ExternalFiles ==
    {NoFile,
     File(Pickle(<<>>)),
     File(Pickle(Exchange("get pods", "a1"))),
     Locked(Pickle(Exchange("get pods", "a1"))),
     File(<<>>),
     File(<<"LIST", "HumanMessage">>),
     File(<<"DICT", "STOP">>),
     File(<<"LIST", "str", "x", "STOP">>),
     File(<<"LIST", "HumanMessage", "get pods", "str", "x", "STOP">>),
     File(<<"LIST", "Gone", "x", "STOP">>)}

(***************************************************************************)
(* The CLI process: single query (cli.py 253-381) and interactive session  *)
(* (cli.py 384-489, agent.py 404-516).                                     *)
(***************************************************************************)
Lines == {"exit", "Quit", "continue", "list namespaces"}

\* str.lower() over the lines of the model
Lower(l) == IF l = "Quit" THEN "quit" ELSE l

\* A mutant of IsExitCommand: only "quit" ends the session.
IsExitCommandQuitOnly(query) == Lower(query) \in {"quit"}

\* line 478
IsExitCommand(query) == Lower(query) \in {"exit", "quit"}

\* lines 490-494
IsContinueCommand(query) ==
    Lower(query) \in {"continue", "continue to iterate", "continue to iterate?"}

\* A mutant of SessionExecutorMemory: the executor is rebuilt without memory.
SessionExecutorMemoryForgotten == "none"

\* lines 446-455: start_interactive_session rebuilds the executor with
\* "memory": self.memory
SessionExecutorMemory == "self"

\* lines 210 and 281-282: cli.py passes no memory, so the executor of a new
\* agent has none
InitialExecutorMemory == "none"

\* agent_executor.invoke (line 325) when it returns: an executor that has a
\* memory appends the input and the output to it
AfterInvoke(mem, execMem, q, a) ==
    IF execMem = "self" /\ mem.exists THEN Mem(mem.msgs \o Exchange(q, a)) ELSE mem

NoCode == <<>>

\* What one run of a query can do: return an answer, raise an Exception
\* before the executor has answered ("error") or after it has answered and
\* saved the exchange to the memory, when run() prints the answer (lines
\* 325-329, "error_after"), or be interrupted from the keyboard before or
\* after the memory was updated
RunOutcomes ==
    {"answer", "error", "error_after", "interrupt_before", "interrupt_after"}

\* cli.py 384-484 and agent.py 404-469: a new agent, then load_memory and a
\* new executor that uses the memory.
StartInteractive ==
    /\ pc \in {"idle", "ended"}
    /\ sessions < MaxSessions
    /\ LET r == LoadMemory(NoMemory, memfile)
       IN  /\ memory' = r.memory
           /\ lastOp' = IF r.raised THEN "loadraise" ELSE "load"
    /\ executorMemory' = SessionExecutorMemory
    /\ mode' = "interactive"
    /\ pc' = "prompt"
    /\ inputs' = <<>>
    /\ fileAtStart' = memfile
    /\ lastExchange' = NoExchange
    /\ saveFault' = FALSE
    /\ exitCode' = NoCode
    /\ sessions' = sessions + 1
    /\ UNCHANGED <<memfile, savedTurns, loadsInRow>>
    /\ UNCHANGED <<execVars, extVars>>

\* Bookkeeping of one save_memory call in a step
Saved(r) ==
    /\ memfile' = r.file
    /\ saveFault' = (saveFault \/ r.fault)
    /\ lastOp' = IF r.fault THEN "savefail" ELSE IF r.wrote THEN "save" ELSE "nosave"

\* lines 475-487: input() returns exit or quit: save, leave the loop
ReadExit(line, w) ==
    /\ pc = "prompt"
    /\ Len(inputs) < MaxInputs
    /\ IsExitCommand(line)
    /\ inputs' = Append(inputs, line)
    /\ Saved(SaveMemory(memory, memfile, w))
    /\ pc' = "finally"
    /\ UNCHANGED <<mode, memory, executorMemory, fileAtStart, lastExchange,
                   savedTurns, loadsInRow, exitCode, sessions>>
    /\ UNCHANGED <<execVars, extVars>>

\* lines 490-499: a continue command goes back to the prompt
ReadContinue(line) ==
    /\ pc = "prompt"
    /\ Len(inputs) < MaxInputs
    /\ ~IsExitCommand(line)
    /\ IsContinueCommand(line)
    /\ inputs' = Append(inputs, line)
    /\ UNCHANGED <<pc, mode, memory, executorMemory, memfile, fileAtStart,
                   lastExchange, saveFault, savedTurns, lastOp, loadsInRow,
                   exitCode, sessions>>
    /\ UNCHANGED <<execVars, extVars>>

\* lines 502 and 507-513: any other line is run as a query
ReadQuery(line, a, outcome, w) ==
    /\ pc = "prompt"
    /\ Len(inputs) < MaxInputs
    /\ ~IsExitCommand(line)
    /\ ~IsContinueCommand(line)
    /\ Len(memory.msgs) < 2 * MaxTurns
    /\ inputs' = Append(inputs, line)
    /\ CASE outcome = "answer" ->
              /\ memory' = AfterInvoke(memory, executorMemory, line, a)
              /\ lastExchange' = Exchange(line, a)
              /\ pc' = "answered"
              /\ UNCHANGED <<memfile, saveFault, lastOp>>
         [] outcome = "error" ->
              /\ pc' = "prompt"
              /\ UNCHANGED <<memory, lastExchange, memfile, saveFault, lastOp>>
         [] outcome = "error_after" ->
              /\ memory' = AfterInvoke(memory, executorMemory, line, a)
              /\ pc' = "prompt"
              /\ UNCHANGED <<lastExchange, memfile, saveFault, lastOp>>
         [] outcome = "interrupt_before" ->
              /\ Saved(SaveMemory(memory, memfile, w))
              /\ pc' = "finally"
              /\ UNCHANGED <<memory, lastExchange>>
         [] outcome = "interrupt_after" ->
              /\ memory' = AfterInvoke(memory, executorMemory, line, a)
              /\ Saved(SaveMemory(memory', memfile, w))
              /\ pc' = "finally"
              /\ UNCHANGED lastExchange
    /\ UNCHANGED <<mode, executorMemory, fileAtStart, savedTurns, loadsInRow,
                   exitCode, sessions>>
    /\ UNCHANGED <<execVars, extVars>>

\* line 505: save after the answer
SaveAfterRun(w) ==
    /\ pc = "answered"
    /\ Saved(SaveMemory(memory, memfile, w))
    /\ pc' = "prompt"
    /\ UNCHANGED <<mode, memory, executorMemory, inputs, fileAtStart,
                   lastExchange, savedTurns, loadsInRow, exitCode, sessions>>
    /\ UNCHANGED <<execVars, extVars>>

\* lines 507-510: KeyboardInterrupt at the prompt or before the save
Interrupt(w) ==
    /\ pc \in {"prompt", "answered"}
    /\ Saved(SaveMemory(memory, memfile, w))
    /\ pc' = "finally"
    /\ UNCHANGED <<mode, memory, executorMemory, inputs, fileAtStart,
                   lastExchange, savedTurns, loadsInRow, exitCode, sessions>>
    /\ UNCHANGED <<execVars, extVars>>

\* lines 475 and 511-513: input() raises EOFError, an Exception: it is
\* printed and the loop goes on
ReadEndOfInput ==
    /\ pc = "prompt"
    /\ UNCHANGED <<pc, mode, inputs, memory, executorMemory, memfile, fileAtStart,
                   lastExchange, saveFault, savedTurns, lastOp, loadsInRow,
                   exitCode, sessions>>
    /\ UNCHANGED <<execVars, extVars>>

\* An error that is no Exception (SystemExit, ...) leaves the loop through
\* the finally clause
Fatal ==
    /\ pc \in {"prompt", "answered"}
    /\ pc' = "finallyFatal"
    /\ UNCHANGED <<mode, memory, executorMemory, memfile, inputs, fileAtStart,
                   lastExchange, saveFault, savedTurns, lastOp, loadsInRow,
                   exitCode, sessions>>
    /\ UNCHANGED <<execVars, extVars>>

\* lines 514-516 and cli.py 485: the finally clause saves once more
Finally(w) ==
    /\ pc \in {"finally", "finallyFatal"}
    /\ Saved(SaveMemory(memory, memfile, w))
    /\ exitCode' = IF pc = "finally" THEN <<0>> ELSE <<1>>
    /\ pc' = "ended"
    /\ UNCHANGED <<mode, memory, executorMemory, inputs, fileAtStart,
                   lastExchange, savedTurns, loadsInRow, sessions>>
    /\ UNCHANGED <<execVars, extVars>>

\* cli.py 253-381: one query.  The agent is built without memory, run once,
\* and the process exits 0 with the answer or 1 with the error.
RunSingleQuery(q, a, outcome) ==
    /\ pc \in {"idle", "ended"}
    /\ sessions < MaxSessions
    /\ mode' = "query"
    /\ executorMemory' = InitialExecutorMemory
    /\ inputs' = <<>>
    /\ fileAtStart' = memfile
    /\ saveFault' = FALSE
    /\ sessions' = sessions + 1
    /\ IF outcome = "answer"
       THEN /\ memory' = AfterInvoke(NoMemory, InitialExecutorMemory, q, a)
            /\ lastExchange' = Exchange(q, a)
            /\ exitCode' = <<0>>
       ELSE /\ memory' = NoMemory
            /\ lastExchange' = NoExchange
            /\ exitCode' = <<1>>
    /\ pc' = "ended"
    /\ lastOp' = "none"
    /\ UNCHANGED <<memfile, savedTurns, loadsInRow>>
    /\ UNCHANGED <<execVars, extVars>>

(***************************************************************************)
(* The memory operations called directly on an agent, in any order.        *)
(***************************************************************************)
NotSaved == [valid |-> FALSE, msgs |-> <<>>]
SavedAs(ms) == [valid |-> TRUE, msgs |-> ms]

\* A new agent on the same memory_path (lines 204-210)
ApiNewAgent ==
    /\ mode = "api"
    /\ memory' = NoMemory
    /\ lastOp' = "new"
    /\ loadsInRow' = 0
    /\ UNCHANGED <<pc, mode, executorMemory, memfile, inputs, fileAtStart,
                   lastExchange, saveFault, savedTurns, exitCode, sessions>>
    /\ UNCHANGED <<execVars, extVars>>

\* One answered query of an executor that uses the memory (line 325)
ApiTurn(q, a) ==
    /\ mode = "api"
    /\ memory.exists
    /\ Len(memory.msgs) < 2 * MaxTurns
    /\ memory' = AfterInvoke(memory, SessionExecutorMemory, q, a)
    /\ lastOp' = "turn"
    /\ loadsInRow' = 0
    /\ UNCHANGED <<pc, mode, executorMemory, memfile, inputs, fileAtStart,
                   lastExchange, saveFault, savedTurns, exitCode, sessions>>
    /\ UNCHANGED <<execVars, extVars>>

\* save_memory()
ApiSave(w) ==
    /\ mode = "api"
    /\ LET r == SaveMemory(memory, memfile, w)
       IN  /\ Saved(r)
           /\ savedTurns' = IF r.wrote THEN SavedAs(memory.msgs)
                            ELSE IF r.file # memfile THEN NotSaved
                            ELSE savedTurns
    /\ loadsInRow' = 0
    /\ UNCHANGED <<pc, mode, memory, executorMemory, inputs, fileAtStart,
                   lastExchange, exitCode, sessions>>
    /\ UNCHANGED <<execVars, extVars>>

\* load_memory()
ApiLoad ==
    /\ mode = "api"
    /\ loadsInRow < MaxLoads
    /\ LET r == LoadMemory(memory, memfile)
       IN  /\ memory' = r.memory
           /\ lastOp' = IF r.raised THEN "loadraise" ELSE "load"
    /\ loadsInRow' = loadsInRow + 1
    /\ UNCHANGED <<pc, mode, executorMemory, memfile, inputs, fileAtStart,
                   lastExchange, saveFault, savedTurns, exitCode, sessions>>
    /\ UNCHANGED <<execVars, extVars>>

(***************************************************************************)
(* The settings store (config.py).  CONFIG_FILE holds a JSON text, here a  *)
(* sequence of tokens; a settings record is a function from the keys it    *)
(* has to their values, and a value is a text or a nested record.          *)
(***************************************************************************)
None == <<"<None>">>
Openai == <<"openai">>
Azure == <<"azure">>

\* config.py 18-27, the value of the module constant when the module is loaded
DEFAULT_CONFIG ==
    [provider |-> Openai,
     openai |-> [api_key |-> <<>>, model |-> <<"gpt-4o">>],
     azure |-> [api_key |-> <<>>, endpoint |-> <<>>, deployment |-> <<>>,
                api_version |-> <<"2023-05-15">>]]

OpenaiFields == <<"api_key", "model">>
AzureFields == <<"api_key", "endpoint", "deployment", "api_version">>
EmptyDict == [x \in {} |-> <<>>]

\* d[k] = v, adding the key when the dict does not have it
SetItem(d, k, v) == [x \in (DOMAIN d) \cup {k} |-> IF x = k THEN v ELSE d[x]]

\* the file is absent, or it exists and open(CONFIG_FILE, "r") raises IOError
NoCfgFile == <<"<absent>">>
UnreadableCfg == <<"<unreadable>">>

\* json.dump of a text, of a section and of a settings record (line 67)
DumpStr(t) == <<"\"">> \o t \o <<"\"">>

RECURSIVE DumpFields(_, _)
DumpFields(sec, names) ==
    IF names = <<>> THEN <<>>
    ELSE (IF Head(names) \in DOMAIN sec
          THEN <<Head(names), ":">> \o DumpStr(sec[Head(names)])
          ELSE <<>>) \o DumpFields(sec, Tail(names))

DumpSection(sec, names) == <<"{">> \o DumpFields(sec, names) \o <<"}">>

DumpConfig(cfg) ==
    <<"{">>
    \o (IF "provider" \in DOMAIN cfg
        THEN <<"provider", ":">> \o DumpStr(cfg["provider"]) ELSE <<>>)
    \o (IF "openai" \in DOMAIN cfg
        THEN <<"openai", ":">> \o DumpSection(cfg["openai"], OpenaiFields)
        ELSE <<>>)
    \o (IF "azure" \in DOMAIN cfg
        THEN <<"azure", ":">> \o DumpSection(cfg["azure"], AzureFields)
        ELSE <<>>)
    \o <<"}">>

\* json.load (line 50): a text between quotes, an object between braces, or
\* a list; anything else is a JSONDecodeError
ParseFail == [ok |-> FALSE, val |-> <<>>, next |-> 0]

RECURSIVE ScanStr(_, _, _)
ScanStr(toks, i, acc) ==
    IF i > Len(toks) THEN ParseFail
    ELSE IF toks[i] = "\"" THEN [ok |-> TRUE, val |-> acc, next |-> i + 1]
    ELSE ScanStr(toks, i + 1, Append(acc, toks[i]))

RECURSIVE ParseMembers(_, _, _)
ParseValue(toks, i) ==
    IF i > Len(toks) THEN ParseFail
    ELSE IF toks[i] = "\"" THEN ScanStr(toks, i + 1, <<>>)
    ELSE IF toks[i] = "{" THEN ParseMembers(toks, i + 1, EmptyDict)
    ELSE ParseFail

ParseMembers(toks, i, acc) ==
    IF i > Len(toks) THEN ParseFail
    ELSE IF toks[i] = "}" THEN [ok |-> TRUE, val |-> acc, next |-> i + 1]
    ELSE IF i + 1 > Len(toks) \/ toks[i + 1] # ":" THEN ParseFail
    ELSE LET Member(r) ==
                 IF ~r.ok THEN ParseFail
                 ELSE ParseMembers(toks, r.next, SetItem(acc, toks[i], r.val))
         IN Member(ParseValue(toks, i + 2))

JsonLoad(toks) ==
    IF toks = <<"[", "]">> THEN [ok |-> TRUE, kind |-> "list", val |-> EmptyDict]
    ELSE LET Loaded(r) ==
                 IF r.ok /\ r.next = Len(toks) + 1 /\ toks[1] = "{"
                 THEN [ok |-> TRUE, kind |-> "dict", val |-> r.val]
                 ELSE [ok |-> FALSE, kind |-> "none", val |-> EmptyDict]
         IN Loaded(ParseValue(toks, 1))

\* A mutant of LoadConfig: the file is not read.
LoadConfigDefaults(file, defs) == [kind |-> "dict", val |-> defs, shared |-> TRUE]

\* load_config, lines 36-54.  defs is DEFAULT_CONFIG as the process holds it.
\* DEFAULT_CONFIG.copy() is a new outer dict over the SAME nested dicts:
\* shared says that the sections of the result are those of DEFAULT_CONFIG.
LoadConfig(file, defs) ==
    IF file = NoCfgFile \/ file = UnreadableCfg
    THEN [kind |-> "dict", val |-> defs, shared |-> TRUE]
    ELSE LET Loaded(r) ==
                 IF r.ok THEN [kind |-> r.kind, val |-> r.val, shared |-> FALSE]
                 ELSE [kind |-> "dict", val |-> defs, shared |-> TRUE]
         IN Loaded(JsonLoad(file))

\* save_config, lines 57-67: "ok", or open(CONFIG_FILE, "w") raises
CfgWriteOutcomes == {"ok", "fail"}
SaveConfig(cfg, file, w) ==
    IF w = "ok" THEN [file |-> DumpConfig(cfg), raised |-> "none"]
    ELSE [file |-> file, raised |-> "OSError"]

\* get_provider / get_openai_settings / get_azure_settings, lines 70-100:
\* config.get(key, DEFAULT_CONFIG[key])
GetSetting(file, defs, key) ==
    LET Got(c) ==
            IF c.kind = "list" THEN [val |-> <<>>, raised |-> "AttributeError"]
            ELSE [val |-> IF key \in DOMAIN c.val THEN c.val[key] ELSE defs[key],
                  raised |-> "none"]
    IN Got(LoadConfig(file, defs))

\* update_provider, lines 103-112
UpdateProvider(file, defs, provider, w) ==
    LET Stored(s) == [file |-> s.file, defs |-> defs, raised |-> s.raised]
        Updated(c) ==
            IF c.kind = "list"
            THEN [file |-> file, defs |-> defs, raised |-> "TypeError"]
            ELSE Stored(SaveConfig(SetItem(c.val, "provider", provider), file, w))
    IN Updated(LoadConfig(file, defs))

\* the assignments config[section][field] = value for the arguments that are
\* not None, in the order of the code; args is a sequence of <<field, value>>
RECURSIVE AssignFieldsAll(_, _)
AssignFieldsAll(sec, args) ==
    IF args = <<>> THEN sec
    ELSE AssignFieldsAll(SetItem(sec, Head(args)[1],
                                 IF Head(args)[2] = None THEN <<>>
                                 ELSE Head(args)[2]),
                         Tail(args))
RECURSIVE AssignFields(_, _)
AssignFields(sec, args) ==
    IF args = <<>> THEN sec
    ELSE AssignFields(IF Head(args)[2] = None THEN sec
                      ELSE SetItem(sec, Head(args)[1], Head(args)[2]),
                      Tail(args))

\* update_openai_settings (115-133) and update_azure_settings (136-165).
\* The nested dict is changed in place: when load_config returned the copy of
\* DEFAULT_CONFIG, that is DEFAULT_CONFIG's own section.
UpdateSection(file, defs, section, args, w) ==
    LET passed == \E i \in 1..Len(args) : args[i][2] # None
        Dumped(c, sec, s) ==
            [file |-> s.file,
             defs |-> IF passed /\ c.shared THEN SetItem(defs, section, sec)
                      ELSE defs,
             raised |-> s.raised]
        Assigned(c, sec) ==
            Dumped(c, sec,
                   SaveConfig(IF passed THEN SetItem(c.val, section, sec)
                              ELSE c.val,
                              file, w))
        Updated(c) ==
            IF c.kind = "list"
            THEN [file |-> file, defs |-> defs,
                  raised |-> IF passed THEN "TypeError"
                             ELSE IF w = "ok" THEN "none" ELSE "OSError"]
            ELSE IF passed /\ section \notin DOMAIN c.val
            THEN [file |-> file, defs |-> defs, raised |-> "KeyError"]
            ELSE Assigned(c, AssignFields(c.val[section], args))
    IN Updated(LoadConfig(file, defs))

UpdateOpenaiSettings(file, defs, api_key, model, w) ==
    UpdateSection(file, defs, "openai",
                  <<<<"api_key", api_key>>, <<"model", model>>>>, w)

UpdateAzureSettings(file, defs, api_key, endpoint, deployment, api_version, w) ==
    UpdateSection(file, defs, "azure",
                  <<<<"api_key", api_key>>, <<"endpoint", endpoint>>,
                    <<"deployment", deployment>>,
                    <<"api_version", api_version>>>>, w)

\* view_config, lines 179-191: the form in which a credential is shown
Stars == <<"*", "*", "*">>
RedactWhole(key) == Stars \o key
Redact(key) ==
    IF Len(key) > 4 THEN Stars \o SubSeq(key, Len(key) - 3, Len(key))
    ELSE Stars

\* display_config.get(section, {}).get("api_key") is non-empty: the nested
\* dict gets the redacted form (config.copy() is shallow, so this is the
\* section of config itself)
RedactSection(cfg, section) ==
    IF section \in DOMAIN cfg /\ "api_key" \in DOMAIN cfg[section]
       /\ cfg[section]["api_key"] # <<>>
    THEN SetItem(cfg, section,
                 SetItem(cfg[section], "api_key",
                         Redact(cfg[section]["api_key"])))
    ELSE cfg

\* view_config, lines 168-193
ViewConfig(file, defs) ==
    LET Shown(c, shown) ==
            [out |-> DumpConfig(shown),
             defs |-> IF c.shared
                      THEN [defs EXCEPT !.openai = shown["openai"],
                                        !.azure = shown["azure"]]
                      ELSE defs,
             raised |-> "none"]
        Viewed(c) ==
            IF c.kind = "list"
            THEN [out |-> <<>>, defs |-> defs, raised |-> "AttributeError"]
            ELSE Shown(c, RedactSection(RedactSection(c.val, "openai"), "azure"))
    IN Viewed(LoadConfig(file, defs))

\* clear_config, lines 196-198: save_config(DEFAULT_CONFIG.copy())
ClearConfig(file, defs, w) == SaveConfig(defs, file, w)

(***************************************************************************)
(* Inputs of the settings operations.                                      *)
(***************************************************************************)
KeyChars == <<"a", "b", "c", "d", "e", "f", "g", "h">>
KeyOf(n) == SubSeq(KeyChars, 1, n)
Keys == {KeyOf(n) : n \in 0..MaxKeyLen}
Providers == {Openai, Azure}
Models == {<<"gpt-4">>}
Endpoints == {<<"https://e">>}
Deployments == {<<"dep">>}
ApiVersions == {<<"2024-02-01">>}
\* arguments of update_openai_settings and of update_azure_settings: one
\* field as the CLI passes them, or two fields at once
OpenaiArgs ==
    {<<k, None>> : k \in Keys} \cup {<<None, m>> : m \in Models}
    \cup {<<KeyOf(MaxKeyLen), m>> : m \in Models}
AzureArgs ==
    {<<KeyOf(MaxKeyLen), None, None, None>>}
    \cup {<<None, e, None, None>> : e \in Endpoints}
    \cup {<<None, None, d, None>> : d \in Deployments}
    \cup {<<None, None, None, v>> : v \in ApiVersions}
    \cup {<<None, e, d, None>> : e \in Endpoints, d \in Deployments}

\* what CONFIG_FILE may hold when a process starts
FullRecord(p, ok, ak) ==
    [provider |-> p,
     openai |-> [api_key |-> ok, model |-> <<"gpt-4o">>],
     azure |-> [api_key |-> ak, endpoint |-> <<"https://e">>,
                deployment |-> <<>>, api_version |-> <<"2023-05-15">>]]
WellFormedFiles ==
    {DumpConfig(DEFAULT_CONFIG),
     DumpConfig(FullRecord(Azure, KeyOf(MaxKeyLen), KeyOf(4)))}
BrokenFiles ==
    {UnreadableCfg,                          \* open() raises IOError
     <<>>,                                   \* an empty file
     <<"{", "provider", ":", "\"">>,         \* a cut file
     <<"[", "]">>,                           \* JSON, but not an object
     <<"{", "}">>,                           \* an object with no key
     DumpConfig([provider |-> Azure]),       \* no provider section
     DumpConfig([provider |-> Openai, openai |-> EmptyDict,
                 azure |-> EmptyDict])}      \* sections with no field
CfgFiles == {NoCfgFile} \cup WellFormedFiles \cup BrokenFiles

NoOp == [name |-> "none", section |-> "none", args |-> <<>>]
NoLoad == [kind |-> "none", val |-> EmptyDict, shared |-> FALSE]

\* bookkeeping shared by the operations: what load_config returned before
\* the operation, the operation, its result and the error it raised
CfgRecord(op, out, raised) ==
    /\ cfgBefore' = LoadConfig(cfgfile, defaultConfig)
    /\ cfgOp' = op
    /\ cfgResult' = out
    /\ cfgRaised' = raised
    /\ cfgOps' = cfgOps + 1
    /\ UNCHANGED <<execVars, memVars, cliVars, raceVars, liveVars>>

CfgGet(key) ==
    /\ cfgOps < MaxOps
    /\ LET r == GetSetting(cfgfile, defaultConfig, key)
       IN CfgRecord([name |-> "get", section |-> key, args |-> <<>>],
                    r.val, r.raised)
    /\ UNCHANGED <<cfgfile, defaultConfig>>

CfgUpdateProvider(provider, w) ==
    /\ cfgOps < MaxOps
    /\ LET r == UpdateProvider(cfgfile, defaultConfig, provider, w)
       IN /\ cfgfile' = r.file
          /\ defaultConfig' = r.defs
          /\ CfgRecord([name |-> "update", section |-> "provider",
                        args |-> <<<<"provider", provider>>>>],
                       <<>>, r.raised)

CfgUpdateOpenai(api_key, model, w) ==
    /\ cfgOps < MaxOps
    /\ LET r == UpdateOpenaiSettings(cfgfile, defaultConfig, api_key, model, w)
       IN /\ cfgfile' = r.file
          /\ defaultConfig' = r.defs
          /\ CfgRecord([name |-> "update", section |-> "openai",
                        args |-> <<<<"api_key", api_key>>, <<"model", model>>>>],
                       <<>>, r.raised)

CfgUpdateAzure(api_key, endpoint, deployment, api_version, w) ==
    /\ cfgOps < MaxOps
    /\ LET r == UpdateAzureSettings(cfgfile, defaultConfig, api_key, endpoint,
                                    deployment, api_version, w)
       IN /\ cfgfile' = r.file
          /\ defaultConfig' = r.defs
          /\ CfgRecord([name |-> "update", section |-> "azure",
                        args |-> <<<<"api_key", api_key>>,
                                   <<"endpoint", endpoint>>,
                                   <<"deployment", deployment>>,
                                   <<"api_version", api_version>>>>],
                       <<>>, r.raised)

CfgView ==
    /\ cfgOps < MaxOps
    /\ LET r == ViewConfig(cfgfile, defaultConfig)
       IN /\ defaultConfig' = r.defs
          /\ CfgRecord([name |-> "view", section |-> "none", args |-> <<>>],
                       r.out, r.raised)
    /\ UNCHANGED cfgfile

CfgClear(w) ==
    /\ cfgOps < MaxOps
    /\ LET r == ClearConfig(cfgfile, defaultConfig, w)
       IN /\ cfgfile' = r.file
          /\ CfgRecord([name |-> "clear", section |-> "none", args |-> <<>>],
                       <<>>, r.raised)
    /\ UNCHANGED defaultConfig

(***************************************************************************)
(* The command line (cli.py).  An argument is a text: a word is one        *)
(* fragment, an option is "-" followed by its letter, or "-", "-" and its  *)
(* name, optionally followed by "=" and the fragments of its value.        *)
(***************************************************************************)
Word(w) == <<w>>
Short(c) == <<"-", c>>
Long(name) == <<"-", "-", name>>
LongEq(name, value) == <<"-", "-", name, "=">> \o value

\* sys.argv[1].startswith("-")
StartsWithDash(tok) == tok # <<>> /\ tok[1] = "-"

\* cli.py 82-231: the subcommands and the options each of them declares
Subcommands == {Word("config"), Word("query"), Word("interactive")}
AgentValueFlags ==
    {"namespace", "provider", "model", "openai-api-key", "azure-api-key",
     "azure-endpoint", "azure-deployment", "azure-api-version"}
ValueFlags(cmd) ==
    IF cmd = "config"
    THEN {"set-provider", "set-openai-key", "set-openai-model", "set-azure-key",
          "set-azure-endpoint", "set-azure-deployment", "set-azure-version"}
    ELSE AgentValueFlags
BoolFlags(cmd) ==
    IF cmd = "config" THEN {"view", "clear"} ELSE {"verbose", "no-tool-display"}
ChoiceFlags == {"provider", "set-provider"}

\* the option an argument names: -n, -v and -h are the short forms
OptName(tok) ==
    IF Len(tok) >= 3 /\ tok[2] = "-" THEN tok[3]
    ELSE IF Len(tok) = 2 /\ tok[2] = "n" THEN "namespace"
    ELSE IF Len(tok) = 2 /\ tok[2] = "v" THEN "verbose"
    ELSE IF Len(tok) = 2 /\ tok[2] = "h" THEN "help"
    ELSE "?"
HasInlineValue(tok) == Len(tok) >= 4 /\ tok[2] = "-" /\ tok[4] = "="
InlineValue(tok) == SubSeq(tok, 5, Len(tok))

NoArgs == [status |-> "none", command |-> "none", opts |-> EmptyDict,
           query |-> <<>>]
Usage == [status |-> "usage", command |-> "none", opts |-> EmptyDict,
          query |-> <<>>]
Help == [status |-> "help", command |-> "none", opts |-> EmptyDict,
         query |-> <<>>]

\* argparse over the arguments of a subcommand, left to right.  The words of
\* the query are the first unbroken run of words (nargs="+"); a word after
\* that run, a word given to config or interactive, and an option the
\* subcommand does not declare are reported when the scan ends; -h prints
\* the help and exits at once.  pos: "none", "open", "closed".
RECURSIVE ScanArgs(_, _, _, _, _, _)
ScanArgs(toks, cmd, opts, query, pos, extras) ==
    IF toks = <<>>
    THEN IF extras \/ (cmd = "query" /\ pos = "none") THEN Usage
         ELSE [status |-> "ok", command |-> cmd, opts |-> opts, query |-> query]
    ELSE LET t == Head(toks)
             closed == IF pos = "open" THEN "closed" ELSE pos
             name == OptName(t)
         IN IF ~StartsWithDash(t)
            THEN IF cmd = "query" /\ pos # "closed"
                 THEN ScanArgs(Tail(toks), cmd, opts, Append(query, t[1]),
                               "open", extras)
                 ELSE ScanArgs(Tail(toks), cmd, opts, query, pos, TRUE)
            ELSE IF name = "help" THEN Help
            ELSE IF name \in BoolFlags(cmd)
            THEN IF HasInlineValue(t) THEN Usage
                 ELSE ScanArgs(Tail(toks), cmd, SetItem(opts, name, <<"true">>),
                               query, closed, extras)
            ELSE IF name \in ValueFlags(cmd)
            THEN IF HasInlineValue(t)
                 THEN IF name \in ChoiceFlags
                         /\ InlineValue(t) \notin {Openai, Azure}
                      THEN Usage
                      ELSE ScanArgs(Tail(toks), cmd,
                                    SetItem(opts, name, InlineValue(t)),
                                    query, closed, extras)
                 ELSE IF Len(toks) < 2 \/ StartsWithDash(toks[2]) THEN Usage
                 ELSE IF name \in ChoiceFlags /\ toks[2] \notin {Openai, Azure}
                 THEN Usage
                 ELSE ScanArgs(Tail(Tail(toks)), cmd,
                               SetItem(opts, name, toks[2]),
                               query, closed, extras)
            ELSE ScanArgs(Tail(toks), cmd, opts, query, closed, TRUE)

\* the top-level parser: options before the subcommand are not declared
\* (except -h), the first word must be a subcommand
RECURSIVE ScanTop(_, _)
ScanTop(toks, extras) ==
    IF toks = <<>> THEN Usage
    ELSE IF StartsWithDash(Head(toks))
    THEN IF OptName(Head(toks)) = "help" THEN Help
         ELSE ScanTop(Tail(toks), TRUE)
    ELSE IF Head(toks) \notin Subcommands THEN Usage
    ELSE ScanArgs(Tail(toks), Head(toks)[1], EmptyDict, <<>>, "none", extras)

\* cli.py 238-244: 'query' is put in front of the arguments when the first
\* one is not a known command and does not start with "-"
KnownCommands == Subcommands \cup {Short("h"), Long("help")}
InsertQueryAlways(av) ==
    IF av[1] \notin KnownCommands THEN <<Word("query")>> \o av ELSE av
InsertQuery(av) ==
    IF av[1] \notin KnownCommands /\ ~StartsWithDash(av[1])
    THEN <<Word("query")>> \o av
    ELSE av

\* cli.py 233-246
ParseArgs(av) == ScanTop(InsertQuery(av), FALSE)

\* args.<option>: None when the option was not given
Arg(args, name) == IF name \in DOMAIN args.opts THEN args.opts[name] ELSE None
\* a value counts as given when it is neither None nor empty
Truthy(v) == v # None /\ v # <<>>
\* a or b
Or(a, b) == IF Truthy(a) THEN a ELSE b
\* d.get(k)
Get(d, k) == IF k \in DOMAIN d THEN d[k] ELSE None

\* os.environ: the variables the CLI reads, as a dict
NoEnv == EmptyDict
OpenaiEnv == [OPENAI_API_KEY |-> KeyOf(3)]
AzureEnv == [AZURE_OPENAI_API_KEY |-> KeyOf(3),
             AZURE_OPENAI_ENDPOINT |-> <<"https://env">>,
             AZURE_OPENAI_DEPLOYMENT |-> <<"envdep">>]
Envs == {NoEnv, OpenaiEnv, AzureEnv}

NoAgent == [provider |-> None]

\* cli.py 296-312 and 347-351 (425-441 and 466-470): the first required
\* setting that is not given, "none" when all are
MissingKeyOnly(provider, creds) ==
    IF ~Truthy(creds["api_key"]) THEN "api_key" ELSE "none"
Missing(provider, creds) ==
    IF provider = Azure
    THEN IF ~Truthy(creds["api_key"]) THEN "api_key"
         ELSE IF ~Truthy(creds["endpoint"]) THEN "endpoint"
         ELSE IF ~Truthy(creds["deployment"]) THEN "deployment"
         ELSE "none"
    ELSE IF ~Truthy(creds["api_key"]) THEN "api_key" ELSE "none"

\* cli.py 262 (391): provider = args.provider or config_provider
EffectiveProviderStored(flag, stored) == stored
EffectiveProvider(flag, stored) == Or(flag, stored)

\* cli.py 256-358 (385-477): the settings the agent is built with; each one
\* is the CLI option, else the stored setting, else the environment variable
AgentSettings(args, file, defs, environ) ==
    LET base(provider) ==
            [namespace |-> Arg(args, "namespace"),
             verbose |-> Truthy(Arg(args, "verbose")),
             show_tool_calls |-> ~Truthy(Arg(args, "no-tool-display")),
             provider |-> provider]
        azure(a) ==
            [api_key |-> Or(Or(Arg(args, "azure-api-key"), Get(a, "api_key")),
                            Get(environ, "AZURE_OPENAI_API_KEY")),
             endpoint |-> Or(Or(Arg(args, "azure-endpoint"), Get(a, "endpoint")),
                             Get(environ, "AZURE_OPENAI_ENDPOINT")),
             deployment |-> Or(Or(Arg(args, "azure-deployment"),
                                  Get(a, "deployment")),
                               Get(environ, "AZURE_OPENAI_DEPLOYMENT")),
             api_version |-> Or(Or(Arg(args, "azure-api-version"),
                                   Get(a, "api_version")),
                                IF "AZURE_OPENAI_API_VERSION" \in DOMAIN environ
                                THEN environ["AZURE_OPENAI_API_VERSION"]
                                ELSE <<"2023-05-15">>)]
        openai(o) ==
            [api_key |-> Or(Or(Arg(args, "openai-api-key"), Get(o, "api_key")),
                            Get(environ, "OPENAI_API_KEY")),
             model |-> Or(Or(Arg(args, "model"), Get(o, "model")),
                          IF "OPENAI_MODEL" \in DOMAIN environ
                          THEN environ["OPENAI_MODEL"] ELSE <<"gpt-4o">>)]
        Checked(provider, creds, kwargs) ==
            IF Missing(provider, creds) # "none"
            THEN [status |-> "missing", kwargs |-> NoAgent]
            ELSE [status |-> "ok", kwargs |-> kwargs]
        AzureAgent(provider, az) ==
            Checked(provider, az,
                    base(provider) @@ [azure_api_key |-> az["api_key"],
                                       azure_endpoint |-> az["endpoint"],
                                       azure_deployment |-> az["deployment"],
                                       azure_api_version |-> az["api_version"]])
        OpenaiAgent(provider, op) ==
            Checked(provider, op,
                    base(provider) @@ [model_name |-> op["model"],
                                       openai_api_key |-> op["api_key"]])
        Chosen(provider, o, a) ==
            IF provider = Azure THEN AzureAgent(provider, azure(a.val))
            ELSE OpenaiAgent(provider, openai(o.val))
        Settings(p, o, a) ==
            IF p.raised # "none" THEN [status |-> "uncaught", kwargs |-> NoAgent]
            ELSE Chosen(EffectiveProvider(Arg(args, "provider"), p.val), o, a)
    IN Settings(GetSetting(file, defs, "provider"),
                GetSetting(file, defs, "openai"),
                GetSetting(file, defs, "azure"))

\* the settings updates a handler performs, in order; each is a call of
\* update_provider or of a section update with one field.  A failed write
\* raises out of the handler.
RECURSIVE ApplyUpdates(_, _, _, _)
ApplyUpdates(file, defs, ups, w) ==
    IF ups = <<>> THEN [file |-> file, defs |-> defs, raised |-> "none"]
    ELSE LET Rest(r) ==
                 IF r.raised # "none" THEN r
                 ELSE ApplyUpdates(r.file, r.defs, Tail(ups), w)
             First(u) ==
                 Rest(IF u[1] = "provider" THEN UpdateProvider(file, defs, u[3], w)
                      ELSE UpdateSection(file, defs, u[1], <<<<u[2], u[3]>>>>, w))
         IN First(Head(ups))

\* the updates for the options that were given with a non-empty value;
\* table is a sequence of <<option, section, field>>
RECURSIVE GivenUpdates(_, _)
GivenUpdates(args, table) ==
    IF table = <<>> THEN <<>>
    ELSE (IF Truthy(Arg(args, Head(table)[1]))
          THEN <<<<Head(table)[2], Head(table)[3], Arg(args, Head(table)[1])>>>>
          ELSE <<>>) \o GivenUpdates(args, Tail(table))

Outcome(dispatch, exit, why, agent, ran, file) ==
    [dispatch |-> dispatch, exit |-> exit, why |-> why, agent |-> agent,
     ran |-> ran, file |-> file]

\* config_command, cli.py 12-67
ConfigCommand(args, file, defs, w) ==
    LET Done(raised, f) ==
            IF raised # "none"
            THEN Outcome("config", 1, "uncaught", NoAgent, FALSE, f)
            ELSE Outcome("config", 0, "ok", NoAgent, FALSE, f)
        Viewed(v) == Done(v.raised, file)
        Written(c) == Done(c.raised, c.file)
    IN IF Truthy(Arg(args, "view")) THEN Viewed(ViewConfig(file, defs))
       ELSE IF Truthy(Arg(args, "clear")) THEN Written(ClearConfig(file, defs, w))
       ELSE Written(ApplyUpdates(file, defs,
                        GivenUpdates(args,
                            <<<<"set-provider", "provider", "provider">>,
                              <<"set-openai-key", "openai", "api_key">>,
                              <<"set-openai-model", "openai", "model">>,
                              <<"set-azure-key", "azure", "api_key">>,
                              <<"set-azure-endpoint", "azure", "endpoint">>,
                              <<"set-azure-deployment", "azure", "deployment">>,
                              <<"set-azure-version", "azure", "api_version">>>>),
                        w))

\* main, cli.py 253-381: the query handler.  o: the agent answers, or
\* building or running it raises.
QueryCommand(args, file, defs, environ, o, w) ==
    LET table(provider) ==
            IF provider = Azure
            THEN <<<<"azure-api-key", "azure", "api_key">>,
                   <<"azure-endpoint", "azure", "endpoint">>,
                   <<"azure-deployment", "azure", "deployment">>,
                   <<"azure-api-version", "azure", "api_version">>,
                   <<"provider", "provider", "provider">>>>
            ELSE <<<<"openai-api-key", "openai", "api_key">>,
                   <<"model", "openai", "model">>,
                   <<"provider", "provider", "provider">>>>
        Run(s, u) ==
            IF u.raised # "none"
            THEN Outcome("query", 1, "uncaught", NoAgent, FALSE, u.file)
            ELSE IF o = "answer"
            THEN Outcome("query", 0, "ok", s.kwargs, TRUE, u.file)
            ELSE Outcome("query", 1, "caught", s.kwargs, TRUE, u.file)
        Handled(s) ==
            IF s.status = "uncaught"
            THEN Outcome("query", 1, "uncaught", NoAgent, FALSE, file)
            ELSE IF s.status = "missing"
            THEN Outcome("query", 1, "missing", NoAgent, FALSE, file)
            ELSE Run(s, ApplyUpdates(file, defs,
                                     GivenUpdates(args, table(s.kwargs["provider"])),
                                     w))
    IN Handled(AgentSettings(args, file, defs, environ))

\* main, cli.py 384-489: the interactive handler.  o: run_interactive
\* returns, or building the agent or the session raises.
InteractiveCommand(args, file, defs, environ, o) ==
    LET Handled(s) ==
            IF s.status = "uncaught"
            THEN Outcome("interactive", 1, "uncaught", NoAgent, FALSE, file)
            ELSE IF s.status = "missing"
            THEN Outcome("interactive", 1, "missing", NoAgent, FALSE, file)
            ELSE IF o = "answer"
            THEN Outcome("interactive", 0, "ok", s.kwargs, TRUE, file)
            ELSE Outcome("interactive", 1, "caught", s.kwargs, TRUE, file)
    IN Handled(AgentSettings(args, file, defs, environ))

\* " ".join(args.query)
RECURSIVE JoinWords(_)
JoinWords(ws) ==
    IF ws = <<>> THEN <<>>
    ELSE IF Len(ws) = 1 THEN <<ws[1]>>
    ELSE <<ws[1], " ">> \o JoinWords(Tail(ws))

NoOutcome == Outcome("none", 0, "none", NoAgent, FALSE, NoCfgFile)

\* main, cli.py 70-491: one CLI process from its arguments to its exit code
MainResult(av, file, environ, o, w) ==
    IF av = <<>> THEN Outcome("help", 0, "help", NoAgent, FALSE, file)
    ELSE LET Dispatch(args) ==
                 IF args.status = "help"
                 THEN Outcome("help", 0, "help", NoAgent, FALSE, file)
                 ELSE IF args.status = "usage"
                 THEN Outcome("usage", 2, "usage", NoAgent, FALSE, file)
                 ELSE IF args.command = "config"
                 THEN ConfigCommand(args, file, DEFAULT_CONFIG, w)
                 ELSE IF args.command = "query"
                 THEN QueryCommand(args, file, DEFAULT_CONFIG, environ, o, w)
                 ELSE InteractiveCommand(args, file, DEFAULT_CONFIG, environ, o)
         IN Dispatch(ParseArgs(av))

Main(av, o, w) ==
    /\ cliRuns < MaxRuns
    /\ cliOut' = MainResult(av, cfgfile, env, o, w)
    /\ cfgfile' = cliOut'.file
    /\ cliArgv' = av
    /\ cliArgs' = IF av = <<>> THEN NoArgs ELSE ParseArgs(av)
    /\ cliFileBefore' = cfgfile
    /\ cliRuns' = cliRuns + 1
    /\ UNCHANGED <<env, defaultConfig, cfgOp, cfgBefore, cfgResult, cfgRaised,
                   cfgOps>>
    /\ UNCHANGED <<execVars, memVars, raceVars, liveVars>>

(***************************************************************************)
(* Two CLI processes of one user at the same time.  Each settings update   *)
(* is load_config, the assignments, and save_config, which opens the file  *)
(* for writing (it is empty from then on) and dumps the settings; each     *)
(* session is load_memory, then one save_memory of the whole memory after  *)
(* every exchange and at the end.  The steps of the two interleave.        *)
(***************************************************************************)
Procs == {"p1", "p2"}

\* CONFIG_FILE between open(CONFIG_FILE, "w") and json.dump
EmptyCfg == <<>>

\* The settings updates a process performs: [section, args]
RaceUpdates ==
    {[section |-> "provider", args |-> <<<<"provider", Azure>>>>],
     [section |-> "openai",
      args |-> <<<<"api_key", KeyOf(MaxKeyLen)>>, <<"model", None>>>>]}
    \cup {[section |-> "openai", args |-> <<<<"api_key", None>>, <<"model", m>>>>] :
              m \in Models}

\* The query a process asks in its session
RaceQuery(p) == IF p = "p1" THEN "list namespaces" ELSE "get pods"

NoSettings == [cfg |-> EmptyDict, upd |-> <<>>]

\* A process starts: another one may be running
RaceBegin(p) ==
    /\ rpc[p] = "idle"
    /\ rstarts < MaxStarts
    /\ rstarts' = rstarts + 1
    /\ overlapped' = (overlapped \/ \E q \in Procs \ {p} : rpc[q] # "idle")

\* config.py 103-112 and 115-133 up to the call of save_config: load_config
\* and the assignments.  A file that holds a list, or no such section, ends
\* the process with an error.
RaceLoadConfig(p, u) ==
    /\ RaceBegin(p)
    /\ LET c == LoadConfig(cfgfile, DEFAULT_CONFIG)
       IN  IF c.kind = "list" \/ (u.section # "provider" /\ u.section \notin DOMAIN c.val)
           THEN UNCHANGED <<rpc, rcfg>>
           ELSE /\ rcfg' = [rcfg EXCEPT ![p] =
                      [cfg |-> IF u.section = "provider"
                               THEN SetItem(c.val, "provider", u.args[1][2])
                               ELSE SetItem(c.val, u.section,
                                            AssignFields(c.val[u.section], u.args)),
                       upd |-> <<u>>]]
                /\ rpc' = [rpc EXCEPT ![p] = "loaded"]
    /\ UNCHANGED <<cfgfile, rmsgs, rlog>>
    /\ UNCHANGED <<defaultConfig, cfgOp, cfgBefore, cfgResult, cfgRaised, cfgOps>>
    /\ UNCHANGED <<execVars, memVars, cliVars, liveVars>>

\* save_config, line 64: open(CONFIG_FILE, "w") truncates the file
RaceOpenConfig(p) ==
    /\ rpc[p] = "loaded"
    /\ cfgfile' = EmptyCfg
    /\ rpc' = [rpc EXCEPT ![p] = "opened"]
    /\ UNCHANGED <<rcfg, rmsgs, rlog, overlapped, rstarts>>
    /\ UNCHANGED <<defaultConfig, cfgOp, cfgBefore, cfgResult, cfgRaised, cfgOps>>
    /\ UNCHANGED <<execVars, memVars, cliVars, liveVars>>

\* The arguments of an update that are not None, as entries of the log
RECURSIVE Written(_, _)
Written(section, args) ==
    IF args = <<>> THEN <<>>
    ELSE (IF Head(args)[2] = None THEN <<>>
          ELSE <<[kind |-> "settings",
                  path |-> IF section = "provider" THEN <<"provider">>
                           ELSE <<section, Head(args)[1]>>,
                  val |-> Head(args)[2]]>>)
         \o Written(section, Tail(args))

\* save_config, line 65: json.dump writes the settings from the start of
\* the file.  When another process has written since this one opened the
\* file, the text of this one replaces the beginning of the other's: the
\* file holds this text (it is at least as long), or this text and the rest
\* of the other's behind it, which is not JSON (tail).
RaceDumpConfig(p, tail) ==
    /\ rpc[p] = "opened"
    /\ tail => cfgfile # EmptyCfg
    /\ cfgfile' = IF tail THEN UnreadableCfg ELSE DumpConfig(rcfg[p].cfg)
    /\ rlog' = rlog \o Written(rcfg[p].upd[1].section, rcfg[p].upd[1].args)
    /\ rcfg' = [rcfg EXCEPT ![p] = NoSettings]
    /\ rpc' = [rpc EXCEPT ![p] = "idle"]
    /\ UNCHANGED <<rmsgs, overlapped, rstarts>>
    /\ UNCHANGED <<defaultConfig, cfgOp, cfgBefore, cfgResult, cfgRaised, cfgOps>>
    /\ UNCHANGED <<execVars, memVars, cliVars, liveVars>>

\* agent.py 404-463: an interactive session starts with load_memory
RaceStartSession(p) ==
    /\ RaceBegin(p)
    /\ rmsgs' = [rmsgs EXCEPT ![p] = LoadMemory(NoMemory, memfile).memory.msgs]
    /\ rpc' = [rpc EXCEPT ![p] = "prompt"]
    /\ UNCHANGED <<rcfg, rlog>>
    /\ UNCHANGED <<execVars, memVars, cfgVars, cliVars, liveVars>>

\* agent.py 502-505: the query is answered, then save_memory writes the
\* whole memory of this session
RaceExchange(p, a) ==
    /\ rpc[p] = "prompt"
    /\ Len(rlog) < MaxStarts
    /\ rmsgs' = [rmsgs EXCEPT ![p] = rmsgs[p] \o Exchange(RaceQuery(p), a)]
    /\ memfile' = SaveMemory(Mem(rmsgs'[p]), memfile, "ok").file
    /\ rlog' = Append(rlog, [kind |-> "transcript", path |-> <<"memory">>,
                             val |-> Exchange(RaceQuery(p), a)])
    /\ UNCHANGED <<rpc, rcfg, overlapped, rstarts>>
    /\ UNCHANGED <<pc, mode, memory, executorMemory, inputs, fileAtStart,
                   lastExchange, saveFault, savedTurns, lastOp, loadsInRow,
                   exitCode, sessions>>
    /\ UNCHANGED <<execVars, cfgVars, cliVars, liveVars>>

\* agent.py 475-487 and 514-516: exit saves the memory and ends the session
RaceExit(p) ==
    /\ rpc[p] = "prompt"
    /\ memfile' = SaveMemory(Mem(rmsgs[p]), memfile, "ok").file
    /\ rmsgs' = [rmsgs EXCEPT ![p] = <<>>]
    /\ rpc' = [rpc EXCEPT ![p] = "idle"]
    /\ UNCHANGED <<rcfg, rlog, overlapped, rstarts>>
    /\ UNCHANGED <<pc, mode, memory, executorMemory, inputs, fileAtStart,
                   lastExchange, saveFault, savedTurns, lastOp, loadsInRow,
                   exitCode, sessions>>
    /\ UNCHANGED <<execVars, cfgVars, cliVars, liveVars>>

(***************************************************************************)
(* An interactive session on an input stream (agent.py 471-516).  The line *)
(* input() returns is the next one of stdin; the lines returned so far are *)
(* inputs.                                                                 *)
(***************************************************************************)
\* line 475: input() returns l
Delivered(l) == Len(inputs) < Len(stdin) /\ l = stdin[Len(inputs) + 1]

\* The stream has no line left: input() raises EOFError
Exhausted == Len(inputs) = Len(stdin)

\* line 475 at the end of the stream: EOFError is an Exception, so control
\* goes to the except clause of line 511
EndOfInputRaised ==
    /\ pc = "prompt"
    /\ Exhausted
    /\ pc' = "except"
    /\ UNCHANGED <<mode, inputs, memory, executorMemory, memfile, fileAtStart,
                   lastExchange, saveFault, savedTurns, lastOp, loadsInRow,
                   exitCode, sessions>>
    /\ UNCHANGED <<execVars, extVars>>

\* lines 511-513: the error is printed, and while True goes on with input()
ErrorPrinted ==
    /\ pc = "except"
    /\ pc' = "prompt"
    /\ UNCHANGED <<mode, inputs, memory, executorMemory, memfile, fileAtStart,
                   lastExchange, saveFault, savedTurns, lastOp, loadsInRow,
                   exitCode, sessions>>
    /\ UNCHANGED <<execVars, extVars>>

(***************************************************************************)
(* Specifications.                                                         *)
(***************************************************************************)
ExecIdle ==
    /\ epc = "off"
    /\ showToolCalls = TRUE
    /\ command = NoText
    /\ argv = <<>>
    /\ spawned = 0
    /\ started = <<>>
    /\ child = NoChild
    /\ funcResult = NoResult
    /\ toolResult = NoResult
    /\ console = <<>>

MemIdle(m, p) ==
    /\ pc = p
    /\ mode = m
    /\ memory = NoMemory
    /\ executorMemory = InitialExecutorMemory
    /\ inputs = <<>>
    /\ fileAtStart = NoFile
    /\ lastExchange = NoExchange
    /\ saveFault = FALSE
    /\ savedTurns = NotSaved
    /\ lastOp = "none"
    /\ loadsInRow = 0
    /\ exitCode = NoCode
    /\ sessions = 0

CliIdle ==
    /\ env = NoEnv
    /\ cliArgv = <<>>
    /\ cliArgs = NoArgs
    /\ cliOut = NoOutcome
    /\ cliFileBefore = NoCfgFile
    /\ cliRuns = 0

LiveIdle == stdin = <<>>

RaceIdle ==
    /\ rpc = [p \in Procs |-> "idle"]
    /\ rcfg = [p \in Procs |-> NoSettings]
    /\ rmsgs = [p \in Procs |-> <<>>]
    /\ rlog = <<>>
    /\ overlapped = FALSE
    /\ rstarts = 0

CfgIdle ==
    /\ cfgfile = NoCfgFile
    /\ defaultConfig = DEFAULT_CONFIG
    /\ cfgOp = NoOp
    /\ cfgBefore = NoLoad
    /\ cfgResult = <<>>
    /\ cfgRaised = "none"
    /\ cfgOps = 0

\* One call of the kubectl_exec tool, for every command and display switch
ExecInit ==
    /\ epc = "call"
    /\ showToolCalls \in BOOLEAN
    /\ command \in Commands
    /\ argv = <<>>
    /\ spawned = 0
    /\ started = <<>>
    /\ child = NoChild
    /\ funcResult = NoResult
    /\ toolResult = NoResult
    /\ console = <<>>
    /\ MemIdle("none", "off")
    /\ memfile = NoFile
    /\ CfgIdle
    /\ CliIdle
    /\ RaceIdle
    /\ LiveIdle

ExecNext ==
    \/ \E f \in BOOLEAN : WrapperEnter(f)
    \/ FuncPrepare
    \/ \E o \in ChildOutcomes : FuncRun(o)
    \/ \E f \in BOOLEAN, g \in BOOLEAN : WrapperReturn(f, g)

SpecExec == ExecInit /\ [][ExecNext]_vars

\* The memory operations of an agent, on every file it may find
StoreInit ==
    /\ ExecIdle
    /\ MemIdle("api", "off")
    /\ memfile \in ExternalFiles
    /\ CfgIdle
    /\ CliIdle
    /\ RaceIdle
    /\ LiveIdle

StoreNext ==
    \/ ApiNewAgent
    \/ \E q \in Queries, a \in Answers : ApiTurn(q, a)
    \/ \E w \in WriteOutcomes : ApiSave(w)
    \/ ApiLoad

SpecStore == StoreInit /\ [][StoreNext]_vars

\* CLI processes run one after the other: single queries and sessions
SessionInit ==
    /\ ExecIdle
    /\ MemIdle("none", "idle")
    /\ memfile \in SessionFiles
    /\ CfgIdle
    /\ CliIdle
    /\ RaceIdle
    /\ LiveIdle

SessionNext ==
    \/ StartInteractive
    \/ \E l \in Lines, w \in WriteOutcomes : ReadExit(l, w)
    \/ \E l \in Lines : ReadContinue(l)
    \/ \E l \in Lines, a \in Answers, o \in RunOutcomes, w \in WriteOutcomes :
           ReadQuery(l, a, o, w)
    \/ \E w \in WriteOutcomes : SaveAfterRun(w)
    \/ \E w \in WriteOutcomes : Interrupt(w)
    \/ ReadEndOfInput
    \/ Fatal
    \/ \E w \in WriteOutcomes : Finally(w)
    \/ \E q \in Queries, a \in Answers, o \in {"answer", "error"} :
           RunSingleQuery(q, a, o)

SpecSession == SessionInit /\ [][SessionNext]_vars

\* The settings operations of one process, on every file it may find
SettingsInit ==
    /\ ExecIdle
    /\ MemIdle("none", "off")
    /\ memfile = NoFile
    /\ cfgfile \in CfgFiles
    /\ defaultConfig = DEFAULT_CONFIG
    /\ cfgOp = NoOp
    /\ cfgBefore = NoLoad
    /\ cfgResult = <<>>
    /\ cfgRaised = "none"
    /\ cfgOps = 0
    /\ CliIdle
    /\ RaceIdle
    /\ LiveIdle

SettingsNext ==
    \/ \E k \in {"provider", "openai", "azure"} : CfgGet(k)
    \/ \E p \in Providers, w \in CfgWriteOutcomes : CfgUpdateProvider(p, w)
    \/ \E a \in OpenaiArgs, w \in CfgWriteOutcomes :
           CfgUpdateOpenai(a[1], a[2], w)
    \/ \E a \in AzureArgs, w \in CfgWriteOutcomes :
           CfgUpdateAzure(a[1], a[2], a[3], a[4], w)
    \/ CfgView
    \/ \E w \in CfgWriteOutcomes : CfgClear(w)

SpecSettings == SettingsInit /\ [][SettingsNext]_vars

\* the command lines of the processes run one after the other
CmdKey == KeyOf(MaxKeyLen)
CommandLines ==
    {<<>>,
     <<Word("config"), LongEq("set-provider", Azure)>>,
     <<Word("config"), LongEq("set-provider", Openai)>>,
     <<Word("config"), LongEq("set-openai-key", CmdKey)>>,
     <<Word("config"), LongEq("set-azure-key", CmdKey),
       LongEq("set-azure-endpoint", <<"https://e">>)>>,
     <<Word("config"), LongEq("set-azure-deployment", <<"dep">>)>>,
     <<Word("config"), Long("clear")>>,
     <<Word("config"), Long("view")>>,
     <<Word("get"), Word("pods")>>,
     <<Word("get"), Word("pods"), LongEq("provider", Azure)>>,
     <<Word("get"), LongEq("provider", Openai)>>,
     <<Word("query"), Word("get"), LongEq("openai-api-key", CmdKey)>>,
     <<Word("get"), LongEq("provider", Azure), LongEq("azure-api-key", CmdKey)>>,
     <<Word("get"), LongEq("azure-endpoint", <<"https://e">>),
       LongEq("azure-deployment", <<"dep">>)>>,
     <<Word("interactive")>>,
     <<Word("interactive"), LongEq("provider", Azure)>>,
     <<Word("interactive"), LongEq("provider", Openai)>>,
     <<Word("interactive"), LongEq("openai-api-key", CmdKey)>>,
     <<Short("n"), Word("default"), Word("get")>>,
     <<Long("verbose"), Word("get")>>}

\* CLI processes run one after the other, starting with no settings file
CliInit ==
    /\ ExecIdle
    /\ MemIdle("none", "off")
    /\ memfile = NoFile
    /\ CfgIdle
    /\ env \in Envs
    /\ cliArgv = <<>>
    /\ cliArgs = NoArgs
    /\ cliOut = NoOutcome
    /\ cliFileBefore = NoCfgFile
    /\ cliRuns = 0
    /\ RaceIdle
    /\ LiveIdle

CliNext ==
    \E av \in CommandLines, o \in {"answer", "error"},
       w \in CfgWriteOutcomes : Main(av, o, w)

SpecCli == CliInit /\ [][CliNext]_vars

\* One CLI process, for every command line of up to MaxArgs arguments
ArgTokens ==
    {Word("get"), Word("pods"), Word("config"), Word("query"),
     Word("interactive"), Short("n"), Long("verbose"), Short("h"),
     Long("view")}

ArgvInit ==
    /\ ExecIdle
    /\ MemIdle("none", "off")
    /\ memfile = NoFile
    /\ CfgIdle
    /\ env = OpenaiEnv
    /\ cliArgv = <<>>
    /\ cliArgs = NoArgs
    /\ cliOut = NoOutcome
    /\ cliFileBefore = NoCfgFile
    /\ cliRuns = 0
    /\ RaceIdle
    /\ LiveIdle

ArgvNext ==
    /\ cliRuns = 0
    /\ \E av \in SeqsUpTo(ArgTokens, MaxArgs), o \in {"answer", "error"},
          w \in CfgWriteOutcomes : Main(av, o, w)

SpecArgv == ArgvInit /\ [][ArgvNext]_vars

\* Settings updates and sessions of two processes, in every interleaving
RaceInit ==
    /\ ExecIdle
    /\ MemIdle("none", "off")
    /\ memfile = NoFile
    /\ cfgfile \in {NoCfgFile, DumpConfig(DEFAULT_CONFIG), <<"{", "}">>}
    /\ defaultConfig = DEFAULT_CONFIG
    /\ cfgOp = NoOp
    /\ cfgBefore = NoLoad
    /\ cfgResult = <<>>
    /\ cfgRaised = "none"
    /\ cfgOps = 0
    /\ CliIdle
    /\ RaceIdle
    /\ LiveIdle

RaceNext ==
    \/ \E p \in Procs, u \in RaceUpdates : RaceLoadConfig(p, u)
    \/ \E p \in Procs : RaceOpenConfig(p)
    \/ \E p \in Procs, tail \in BOOLEAN : RaceDumpConfig(p, tail)
    \/ \E p \in Procs : RaceStartSession(p)
    \/ \E p \in Procs : RaceExchange(p, "a1")
    \/ \E p \in Procs : RaceExit(p)

SpecRace == RaceInit /\ [][RaceNext]_vars

\* One interactive session on every input stream of up to MaxTurns lines.
\* The process runs on while it can take a step of its own; an interrupt or
\* a fatal error may come, or not.
LiveInit ==
    /\ ExecIdle
    /\ MemIdle("none", "idle")
    /\ memfile = NoFile
    /\ CfgIdle
    /\ CliIdle
    /\ RaceIdle
    /\ stdin \in SeqsUpTo(Lines, MaxTurns)

LiveStep ==
    \/ \E l \in Lines, w \in WriteOutcomes : Delivered(l) /\ ReadExit(l, w)
    \/ \E l \in Lines : Delivered(l) /\ ReadContinue(l)
    \/ \E l \in Lines, a \in Answers, o \in RunOutcomes, w \in WriteOutcomes :
           Delivered(l) /\ ReadQuery(l, a, o, w)
    \/ \E w \in WriteOutcomes : SaveAfterRun(w)
    \/ EndOfInputRaised
    \/ ErrorPrinted
    \/ \E w \in WriteOutcomes : Finally(w)

LiveNext ==
    \/ sessions = 0 /\ StartInteractive
    \/ LiveStep
    \/ \E w \in WriteOutcomes : Interrupt(w)
    \/ Fatal

SpecLive == LiveInit /\ [][LiveNext]_vars /\ WF_vars(LiveStep)

(***************************************************************************)
(* Properties of the tool call, checked under SpecExec.                    *)
(***************************************************************************)
\* The text, stripped, has the word kubectl as its first word
LeadsWithKubectl(s) == s # <<>> /\ s[1] = "kubectl" /\ (Len(s) = 1 \/ IsWs(s[2]))

\* C1: when the command already starts with the word kubectl the vector that
\* is executed is the words of the command (the prefix is not duplicated),
\* and when it does not, the vector is kubectl followed by those words.
C1_PrefixExactlyOnce ==
    epc = "spawn" =>
        LET s == Strip(command)
            words == ShlexSplit(s).args
        IN  argv = IF LeadsWithKubectl(s) THEN words ELSE <<<<"kubectl">>>> \o words

\* C2: when the child exits non-zero, kubectl_exec returns "Error: " followed
\* by the captured stderr, and whatever text the tool hands on for that call
\* is flagged with "Error: ", never an empty or unflagged success.
C2_NonZeroExitIsFlagged ==
    child.status = "nonzero" =>
        /\ funcResult = Return(<<"Error: ">> \o child.out)
        /\ (epc = "returned" /\ toolResult.kind = "return") =>
               (toolResult.val # <<>> /\ Head(toolResult.val) = "Error: ")

\* A failed child that wrote nothing to stderr still yields a flagged result
C2_Witness ==
    /\ epc = "returned"
    /\ child = [status |-> "nonzero", out |-> <<>>]
    /\ showToolCalls
    /\ toolResult = Return(<<"Error: ">>)

\* C3: when the wrapped execution raises, the tool call returns the string
\* "Error: " followed by the error text and does not raise.
C3_RaisedErrorsBecomeText ==
    (epc = "returned" /\ funcResult.kind = "raise") =>
        toolResult = Return(<<"Error: ">> \o funcResult.val)

\* What the claim of C4 expects on the console after the header for a text
\* that is not shown as JSON
ExpectedPlainDisplay(out) ==
    LET ls == SplitLines(out)
    IN  IF Len(ls) > PREVIEW_LINES
        THEN <<Label("Output (truncated):"),
               Item("text", JoinLines(SubSeq(ls, 1, PREVIEW_LINES)), 0),
               Item("more", <<>>, Len(ls) - PREVIEW_LINES)>>
        ELSE <<Label("Output:"), Item("text", out, 0)>>

\* C4: for a result that is not shown as JSON the display is the first 20
\* lines and the count of the lines left out (the whole text when it has at
\* most 20 lines), and the value returned is the full result.
C4_PreviewAndFullValue ==
    (/\ epc = "returned"
     /\ showToolCalls
     /\ funcResult.kind = "return"
     /\ ~(LooksJson(funcResult.val) /\ JsonLoadsOk(funcResult.val))) =>
        /\ toolResult = funcResult
        /\ console = HeaderStart \o HeaderRest
                       \o ExpectedPlainDisplay(funcResult.val) \o <<Rule>>

(***************************************************************************)
(* Properties of the memory operations, checked under SpecStore.           *)
(***************************************************************************)
\* C5: when the file holds what a successful save_memory wrote, load_memory
\* (in the same agent or a new one, once or twice in a row) leaves exactly
\* the saved messages in memory: same number, order, roles and texts.
C5_SaveLoadRoundTrip ==
    (lastOp \in {"load", "loadraise"} /\ savedTurns.valid) =>
        /\ lastOp = "load"
        /\ memory = Mem(savedTurns.msgs)

\* Two exchanges saved, then loaded twice in a row without duplicates
C5_Witness ==
    /\ lastOp = "load"
    /\ loadsInRow = 2
    /\ savedTurns.valid
    /\ Len(savedTurns.msgs) = 4
    /\ memory.msgs = savedTurns.msgs

\* C6: after load_memory on a file that is absent, unreadable, not
\* unpicklable or not a list of messages, nothing was raised and the agent
\* holds a new, empty memory.
C6_BadFileGivesEmptyMemory ==
    (lastOp \in {"load", "loadraise"} /\ (~memfile.exists \/ ~AcceptedFile(memfile))) =>
        /\ lastOp = "load"
        /\ memory = CreateMemory

\* An agent that held messages loaded a list with a non-message in it
C6_Witness ==
    /\ lastOp = "load"
    /\ saveFault
    /\ memfile = File(<<"LIST", "HumanMessage", "get pods", "str", "x", "STOP">>)
    /\ memory = Mem(<<>>)

(***************************************************************************)
(* Properties of the CLI processes, checked under SpecSession.             *)
(***************************************************************************)
IsPrefix(a, b) == Len(a) <= Len(b) /\ SubSeq(b, 1, Len(a)) = a

\* The memory is the transcript plus at most one exchange
AtMostOneExchangeAhead(ms, disk) ==
    \/ ms = disk
    \/ \E q \in Lines, a \in Answers : ms = disk \o Exchange(q, a)

\* C7: in an interactive session whose writes succeed, at every point the
\* transcript on disk lacks at most one exchange of the memory, and once the
\* session has ended (by exit or quit, keyboard interrupt or an error that
\* leaves the loop) the two are equal.
C7_DiskLacksAtMostOneExchange ==
    (mode = "interactive" /\ ~saveFault
       /\ pc \in {"prompt", "answered", "finally", "finallyFatal", "ended"}) =>
        LET disk == DiskTranscript(memfile)
        IN  /\ AtMostOneExchangeAhead(memory.msgs, disk)
            /\ pc = "ended" => memory.msgs = disk

\* The session of scenario D has ended: no file before it, the two lines
\* "list namespaces" and "exit" read, every write succeeded
ScenarioD ==
    /\ mode = "interactive"
    /\ pc = "ended"
    /\ fileAtStart = NoFile
    /\ inputs = <<"list namespaces", "exit">>
    /\ ~saveFault

CountCls(ms, c) == Len(SelectSeq(ms, LAMBDA m : m.cls = c))

\* C8 as stated: after scenario D the file holds two Human turns and two
\* Assistant turns.
C8_ScenarioD_TwoHumanTwoAssistant ==
    ScenarioD =>
        /\ CountCls(DiskTranscript(memfile), "HumanMessage") = 2
        /\ CountCls(DiskTranscript(memfile), "AIMessage") = 2

\* C8 amended: after scenario D the file exists and holds one Human turn,
\* "list namespaces", followed by its Assistant turn when the executor
\* answered the query, and no turn when it raised an error before answering.
C8_ScenarioD_OneExchange ==
    ScenarioD =>
        /\ memfile.exists
        /\ DiskTranscript(memfile) = memory.msgs
        /\ \/ DiskTranscript(memfile) = <<>>
           \/ \E a \in Answers :
                  DiskTranscript(memfile) = Exchange("list namespaces", a)
        /\ lastExchange # NoExchange => DiskTranscript(memfile) = lastExchange

C8_Witness ==
    /\ ScenarioD
    /\ exitCode = <<0>>
    /\ DiskTranscript(memfile) = Exchange("list namespaces", "a2")

\* The messages a file holds, whether load_memory accepts the file or not
StoredTurns(file) ==
    IF file.exists /\ Unpickle(file.blob).ok /\ Unpickle(file.blob).isList
    THEN SelectSeq(Unpickle(file.blob).items, IsBaseMessage)
    ELSE <<>>

RECURSIVE WholeExchanges(_)
WholeExchanges(ms) ==
    \/ ms = <<>>
    \/ /\ Len(ms) >= 2
       /\ ms[1].cls = "HumanMessage"
       /\ ms[2].cls = "AIMessage"
       /\ WholeExchanges(SubSeq(ms, 3, Len(ms)))

ContainsExchange(ms, ex) ==
    \E i \in 1..Len(ms) : i + 1 <= Len(ms) /\ SubSeq(ms, i, i + 1) = ex

\* C10 as stated: once a query has been answered and the process is back at
\* the prompt or has ended, in either mode, the executor used the memory and
\* the file contains that exchange.
C10_EveryAnswerPersisted ==
    (pc \in {"prompt", "ended"} /\ lastExchange # NoExchange /\ ~saveFault) =>
        /\ executorMemory = "self"
        /\ ContainsExchange(DiskTranscript(memfile), lastExchange)

\* C10 amended: that holds in interactive mode; a single query runs without
\* memory and leaves the file as it found it.
C10_InteractiveAnswersPersisted ==
    /\ (mode = "interactive" /\ pc \in {"prompt", "ended"}
          /\ lastExchange # NoExchange /\ ~saveFault) =>
           /\ executorMemory = "self"
           /\ ContainsExchange(DiskTranscript(memfile), lastExchange)
    /\ (mode = "query" /\ pc = "ended") =>
           /\ executorMemory = "none"
           /\ memory = NoMemory
           /\ memfile = fileAtStart

\* A single query answered after a session: the file is still the session's
C10_Witness ==
    /\ mode = "query"
    /\ pc = "ended"
    /\ sessions = 2
    /\ exitCode = <<0>>
    /\ lastExchange = Exchange("get pods", "a2")
    /\ DiskTranscript(memfile) = Exchange("list namespaces", "a1")
    /\ fileAtStart = memfile

(***************************************************************************)
(* Properties of the settings store, checked under SpecSettings.           *)
(***************************************************************************)
\* the argument passed for a field by the last operation, None if not passed
PassedArg(section, field) ==
    IF cfgOp.name = "update" /\ cfgOp.section = section
       /\ \E i \in 1..Len(cfgOp.args) : cfgOp.args[i][1] = field
    THEN (CHOOSE a \in {cfgOp.args[i] : i \in 1..Len(cfgOp.args)} :
              a[1] = field)[2]
    ELSE None

\* the key is in both dicts with the same value, or in neither
SameItem(before, after, key) ==
    /\ (key \in DOMAIN before) <=> (key \in DOMAIN after)
    /\ key \in DOMAIN before => before[key] = after[key]

SectionAfterUpdate(before, after, section, fields) ==
    IF section \in DOMAIN before /\ section \in DOMAIN after
    THEN \A i \in 1..Len(fields) :
             IF PassedArg(section, fields[i]) # None
             THEN /\ fields[i] \in DOMAIN after[section]
                  /\ after[section][fields[i]] = PassedArg(section, fields[i])
             ELSE SameItem(before[section], after[section], fields[i])
    ELSE /\ section \notin DOMAIN before
         /\ section \notin DOMAIN after

\* C11: after an update that completed, reading the settings again gives the
\* passed value for every field that was passed, and every other field, of
\* the same section and of the others, is as a read gave it before the update
C11_UpdateWritesOnlyPassedFields ==
    (cfgOp.name = "update" /\ cfgRaised = "none") =>
        LET before == cfgBefore.val
            after == LoadConfig(cfgfile, defaultConfig).val
        IN /\ IF cfgOp.section = "provider"
              THEN /\ "provider" \in DOMAIN after
                   /\ after["provider"] = PassedArg("provider", "provider")
              ELSE SameItem(before, after, "provider")
           /\ SectionAfterUpdate(before, after, "openai", OpenaiFields)
           /\ SectionAfterUpdate(before, after, "azure", AzureFields)

\* an update of one field of a record whose other fields are not the defaults
C11_Witness ==
    /\ cfgOp.name = "update" /\ cfgRaised = "none"
    /\ cfgOp.section = "openai"
    /\ PassedArg("openai", "api_key") = KeyOf(2)
    /\ PassedArg("openai", "model") = None
    /\ ~cfgBefore.shared
    /\ cfgBefore.val["provider"] = Azure
    /\ cfgBefore.val["openai"]["api_key"] = KeyOf(MaxKeyLen)
    /\ LoadConfig(cfgfile, defaultConfig).val["openai"]["api_key"] = KeyOf(2)
    /\ LoadConfig(cfgfile, defaultConfig).val["azure"]["api_key"] = KeyOf(4)

\* C12: after clear_config has completed, whatever the process did before,
\* the file holds the documented default record: provider openai, empty
\* keys, endpoint and deployment, the default model and API version
C12_ClearLeavesDefaultRecord ==
    (cfgOp.name = "clear" /\ cfgRaised = "none") =>
        /\ JsonLoad(cfgfile).ok
        /\ JsonLoad(cfgfile).val = DEFAULT_CONFIG

\* the credential of a section as view_config printed it, and as the file
\* holds it
ShownKey(section) == JsonLoad(cfgResult).val[section]["api_key"]
StoredKey(section) == JsonLoad(cfgfile).val[section]["api_key"]
HasStoredKey(section) ==
    /\ JsonLoad(cfgfile).ok /\ JsonLoad(cfgfile).kind = "dict"
    /\ section \in DOMAIN JsonLoad(cfgfile).val
    /\ "api_key" \in DOMAIN JsonLoad(cfgfile).val[section]

\* C13: view_config shows a stored credential of more than 4 characters as
\* three stars followed by its last 4 characters and nothing else, so none
\* of the characters before the last 4 is shown; a non-empty credential of 4
\* characters or fewer is shown as three stars only; the file is the same
\* before and after the view
C13_ViewRedactsCredentials ==
    (cfgOp.name = "view" /\ cfgRaised = "none") =>
        /\ cfgBefore = LoadConfig(cfgfile, defaultConfig)
           \/ cfgBefore.shared
        /\ \A section \in {"openai", "azure"} :
               HasStoredKey(section) =>
                   LET key == StoredKey(section)
                       shown == ShownKey(section)
                   IN /\ Len(key) > 4 =>
                             /\ Len(shown) = 7
                             /\ SubSeq(shown, 1, 3) = Stars
                             /\ SubSeq(shown, 4, 7)
                                    = SubSeq(key, Len(key) - 3, Len(key))
                             /\ \A i \in 1..(Len(key) - 4) :
                                    \A j \in 1..Len(shown) : shown[j] # key[i]
                      /\ (key # <<>> /\ Len(key) <= 4) => shown = Stars
                      /\ key = <<>> => shown = <<>>

\* a view of a file that holds a long key and a key of exactly 4 characters
C13_Witness ==
    /\ cfgOp.name = "view" /\ cfgRaised = "none"
    /\ HasStoredKey("openai") /\ HasStoredKey("azure")
    /\ StoredKey("openai") = KeyOf(MaxKeyLen)
    /\ StoredKey("azure") = KeyOf(4)
    /\ ShownKey("openai") = Stars \o SubSeq(KeyOf(MaxKeyLen), MaxKeyLen - 3, MaxKeyLen)
    /\ ShownKey("azure") = Stars

\* load_config returned a complete settings record read from the file
CompleteRecord(c) ==
    /\ c.kind = "dict" /\ ~c.shared
    /\ DOMAIN c.val = {"provider", "openai", "azure"}
    /\ DOMAIN c.val["openai"] = {"api_key", "model"}
    /\ DOMAIN c.val["azure"]
           = {"api_key", "endpoint", "deployment", "api_version"}

\* C14: when the file is missing, unreadable, or holds anything but a
\* complete settings record, the get, update and view operations raise no
\* error of their own (an update may still report a failed write), and what
\* was loaded is the default record
C14_LoadNeverFatal ==
    (cfgOp.name \in {"get", "update", "view"} /\ ~CompleteRecord(cfgBefore)) =>
        /\ cfgRaised \in {"none", "OSError"}
        /\ cfgBefore.shared

(***************************************************************************)
(* Properties of the command line, checked under SpecCli and SpecArgv.     *)
(***************************************************************************)
\* the provider a process reads from the file (get_provider)
PersistedProvider(file) == GetSetting(file, DEFAULT_CONFIG, "provider").val

AgentBuilt == cliOut.agent # NoAgent
OpenaiKwargs == {"model_name", "openai_api_key"}
AzureKwargs == {"azure_api_key", "azure_endpoint", "azure_deployment",
                "azure_api_version"}
\* the agent was given the credentials of the provider, and of no other
OnlyCredentialsOf(provider) ==
    (DOMAIN cliOut.agent) \cap (OpenaiKwargs \cup AzureKwargs)
        = IF provider = Azure THEN AzureKwargs ELSE OpenaiKwargs

ProviderFieldValid ==
    cfgfile # NoCfgFile =>
        /\ JsonLoad(cfgfile).ok /\ JsonLoad(cfgfile).kind = "dict"
        /\ "provider" \in DOMAIN JsonLoad(cfgfile).val
        /\ JsonLoad(cfgfile).val["provider"] \in Providers

\* C15: after any sequence of CLI commands the provider field of the file
\* is openai or azure, and an agent that was built is configured for the
\* provider the file names, with the credentials of that provider only
C15_AgentUsesPersistedProvider ==
    /\ ProviderFieldValid
    /\ (AgentBuilt /\ cfgfile # NoCfgFile) =>
           /\ cliOut.agent["provider"] = PersistedProvider(cfgfile)
           /\ OnlyCredentialsOf(PersistedProvider(cfgfile))

\* C15, as the code has it: the provider field of the file is openai or
\* azure; an agent is configured for one provider, the one --provider names
\* and else the one the file named when the process started, and with the
\* credentials of that provider only; the query handler has stored that
\* provider in the file before it builds the agent, the interactive handler
\* leaves the file as it was
C15_OneProviderPerInvocation ==
    /\ ProviderFieldValid
    /\ AgentBuilt =>
           LET flag == Arg(cliArgs, "provider")
               want == IF Truthy(flag) THEN flag
                       ELSE PersistedProvider(cliFileBefore)
           IN /\ want \in Providers
              /\ cliOut.agent["provider"] = want
              /\ OnlyCredentialsOf(want)
              /\ cliOut.dispatch = "query" => PersistedProvider(cfgfile) = want
              /\ cliOut.dispatch = "interactive" => cfgfile = cliFileBefore

\* an interactive session on azure while the file names openai
C15_Witness ==
    /\ AgentBuilt
    /\ cliOut.dispatch = "interactive"
    /\ Arg(cliArgs, "provider") = Azure
    /\ cfgfile # NoCfgFile
    /\ PersistedProvider(cfgfile) = Openai
    /\ cliOut.agent["provider"] = Azure
    /\ OnlyCredentialsOf(Azure)

\* a command line whose first argument is not a subcommand
NotASubcommand == cliRuns = 1 /\ cliArgv # <<>> /\ cliArgv[1] \notin Subcommands

ActiveProvider ==
    Or(Arg(cliArgs, "provider"), PersistedProvider(cliFileBefore))
StoredAtStart(section) == GetSetting(cliFileBefore, DEFAULT_CONFIG, section).val

\* the setting is given by the CLI option, by the stored record or by the
\* environment variable
Given(option, section, field, variable) ==
    \/ Truthy(Arg(cliArgs, option))
    \/ Truthy(Get(StoredAtStart(section), field))
    \/ Truthy(Get(env, variable))

\* a query or interactive invocation lacks a required credential
CredentialAbsent ==
    /\ cliArgs.status = "ok"
    /\ cliArgs.command \in {"query", "interactive"}
    /\ IF ActiveProvider = Azure
       THEN \/ ~Given("azure-api-key", "azure", "api_key", "AZURE_OPENAI_API_KEY")
            \/ ~Given("azure-endpoint", "azure", "endpoint",
                      "AZURE_OPENAI_ENDPOINT")
            \/ ~Given("azure-deployment", "azure", "deployment",
                      "AZURE_OPENAI_DEPLOYMENT")
       ELSE ~Given("openai-api-key", "openai", "api_key", "OPENAI_API_KEY")

\* C17: the exit code of a CLI process is 0 exactly when it succeeded (help
\* was printed, or its handler ran to the end without an error); it is 1
\* when a required credential is given neither by an option, nor by the
\* stored settings, nor by the environment, and then no agent was built, no
\* query was run and the settings file is as it was; it is 1 when the
\* handler caught an error of the agent
C17_ExitCodes ==
    cliRuns > 0 =>
        /\ cliOut.exit \in {0, 1, 2}
        /\ cliOut.exit = 0 <=> cliOut.why \in {"ok", "help"}
        /\ cliOut.why = "ok" =>
               \/ cliOut.dispatch = "config"
               \/ cliOut.ran /\ AgentBuilt /\ ~CredentialAbsent
        /\ CredentialAbsent =>
               /\ cliOut.exit = 1
               /\ cliOut.why = "missing"
               /\ ~AgentBuilt
               /\ ~cliOut.ran
               /\ cfgfile = cliFileBefore
        /\ cliOut.why = "missing" => CredentialAbsent
        /\ cliOut.why = "caught" => cliOut.exit = 1

\* a query for azure with a stored key and endpoint but no deployment
C17_Witness ==
    /\ cliRuns > 0
    /\ cliOut.dispatch = "query"
    /\ ActiveProvider = Azure
    /\ Given("azure-api-key", "azure", "api_key", "AZURE_OPENAI_API_KEY")
    /\ Given("azure-endpoint", "azure", "endpoint", "AZURE_OPENAI_ENDPOINT")
    /\ ~Given("azure-deployment", "azure", "deployment",
              "AZURE_OPENAI_DEPLOYMENT")
    /\ cliOut.exit = 1
    /\ ~AgentBuilt

(***************************************************************************)
(* Errors of a turn, checked under SpecSession.                            *)
(***************************************************************************)
\* a step in which a line was run as a query and the run raised an
\* Exception: the line is neither a command of the session nor answered
FailedTurn ==
    /\ mode = "interactive"
    /\ pc = "prompt"
    /\ Len(inputs') = Len(inputs) + 1
    /\ ~IsExitCommand(inputs'[Len(inputs')])
    /\ ~IsContinueCommand(inputs'[Len(inputs')])
    /\ pc' \notin {"answered", "finally"}

\* C18: an Exception raised while a turn is answered does not end the
\* session: the loop is back at the prompt, where the next line is read,
\* and the memory and the file are as they were before the turn; a single
\* query that raises ends the process with exit code 1
C18_FailedTurnLeavesTranscript ==
    /\ [][FailedTurn =>
            /\ pc' = "prompt"
            /\ memory' = memory
            /\ memfile' = memfile]_vars
    /\ [](mode = "query" /\ pc = "ended" /\ lastExchange = NoExchange
            => exitCode = <<1>>)

(***************************************************************************)
(* What the tool executes, checked under SpecExec.                         *)
(***************************************************************************)
\* C20: a call of kubectl_exec starts at most one child process, and the
\* binary of every child it starts is kubectl: the vector about to be run
\* has the word kubectl first and is the words of the normalised command,
\* the operators of a shell staying inside them, and each step that starts
\* a child starts one, the first word of that vector, and is not repeated.
C20_OnlyKubectlIsStarted ==
    /\ [](/\ spawned = Len(started)
          /\ spawned <= 1
          /\ \A i \in 1..Len(started) : started[i] = <<"kubectl">>
          /\ epc = "spawn" =>
                /\ argv = ShlexSplit(Normalize(command)).args
                /\ argv[1] = <<"kubectl">>
          /\ epc \in {"call", "func", "spawn"} => spawned = 0)
    /\ [][spawned' # spawned =>
            /\ epc = "spawn" /\ epc' = "after"
            /\ started' = <<argv[1]>>]_vars

\* A call has started its one child, kubectl, which exited non-zero, and
\* has returned
C20_Witness ==
    /\ epc = "returned"
    /\ spawned = 1
    /\ started = <<<<"kubectl">>>>
    /\ child.status = "nonzero"

(***************************************************************************)
(* Updates lost between processes, checked under SpecRace.                 *)
(***************************************************************************)
\* The value the settings file holds at a path
FileValue(path) ==
    LET c == LoadConfig(cfgfile, DEFAULT_CONFIG).val
    IN  IF path[1] \notin DOMAIN c THEN None
        ELSE IF Len(path) = 1 THEN c[path[1]]
        ELSE IF path[2] \notin DOMAIN c[path[1]] THEN None
        ELSE c[path[1]][path[2]]

\* How often an exchange occurs in a transcript
Occurrences(ex, ms) ==
    Cardinality({i \in 1..(Len(ms) - 1) : i % 2 = 1 /\ SubSeq(ms, i, i + 1) = ex})

\* The update is in the files: a setting holds the value written last to
\* it, and the transcript holds every exchange that was saved
Kept(i) ==
    IF rlog[i].kind = "settings"
    THEN \/ \E j \in (i + 1)..Len(rlog) : rlog[j].path = rlog[i].path
         \/ FileValue(rlog[i].path) = rlog[i].val
    ELSE Occurrences(rlog[i].val, DiskTranscript(memfile))
             >= Cardinality({j \in 1..i : rlog[j].val = rlog[i].val})

NoUpdateLost == \A i \in 1..Len(rlog) : Kept(i)

Quiescent == \A p \in Procs : rpc[p] = "idle"

\* C19: when no process has run at the same time as another, every update
\* the processes wrote is in the final files (with two processes at the same
\* time an update can be lost: C19_Witness)
C19_NoLossWithoutOverlap ==
    (Quiescent /\ ~overlapped) => NoUpdateLost

\* Two processes ran at the same time and both have ended; the settings
\* file is one that load_config reads, and a setting that one of them wrote
\* is absent from it
C19_Witness ==
    /\ Quiescent
    /\ overlapped
    /\ JsonLoad(cfgfile).ok
    /\ memfile = NoFile
    /\ \E i \in 1..Len(rlog) : ~Kept(i)

(***************************************************************************)
(* The display switch and the value of the tool, checked under SpecExec.   *)
(***************************************************************************)
\* C21: the value or outcome the reasoning engine receives from a call does
\* not depend on SHOW_TOOL_CALLS: when a call has returned, the wrapped
\* function has run, and for the outcome it had, the wrapper with the switch
\* the other way, whatever its prints do, hands on what this call handed on.
C21_SwitchDoesNotChangeValue ==
    epc = "returned" =>
        /\ funcResult # NoResult
        /\ \A printFails \in BOOLEAN, errPrintFails \in BOOLEAN :
               WrapperFinish(~showToolCalls, funcResult, <<>>,
                             printFails, errPrintFails).result = toolResult

(***************************************************************************)
(* Termination of the session, checked under SpecLive.                     *)
(***************************************************************************)
\* The input of the session is over: exit or quit was read or the session
\* was interrupted (the loop is left), or the stream has no line left
InputOver ==
    /\ mode = "interactive"
    /\ \/ pc \in {"finally", "finallyFatal"}
       \/ pc \in {"prompt", "except"} /\ Exhausted

\* C22: once the input of the session is over, run_interactive eventually
\* leaves its loop, saves and returns
C22_SessionTerminates == InputOver ~> (pc = "ended")

====
